---- MODULE Spec2Model ----
(***************************************************************************)
(* Model of the integration automation pipeline (orchestrator/pipeline.py  *)
(* and its four stage modules).  The oracle (claude CLI), the test runner  *)
(* (pytest) and git/gh are the environment: each call's outcome is chosen  *)
(* nondeterministically among the outcomes the wrappers can produce.       *)
(* File contents are tokens; a path is a token; an exception is a token.   *)
(***************************************************************************)
EXTENDS Naturals, Sequences, FiniteSets, TLC

\* ---------------------------------------------------------------- bounds
\* Environment failures in one run: an oracle call that raises, the executor
\* failing to start a worker, a failing git push, a failing gh pr create.
MaxFaults == 1

\* Oracle responses in one run that are not in the instructed form (one valid
\* file under the primary markers).
MaxMalformed == 1

\* Failing test runs in one run (MAX_HEAL_ROUNDS + 1 exhaust one target).
MaxTestFailures == 4

\* Elements (comma-separated pieces, list items) of a scope argument.
MaxElems == 3

\* ------------------------------------------------------ program constants
MAX_HEAL_ROUNDS == 3

_ALL_CLIENTS == <<"crewai", "langchain", "llamaindex">>

\* Keys of _CLIENT_CONFIG.
_CLIENT_CONFIG == {"crewai", "langchain", "llamaindex"}

all_clients == <<"crewai", "langchain", "llamaindex">>

\* A target id that is no key of _CLIENT_CONFIG (already trimmed, lower-cased).
UnknownId == "other"

Ids == _CLIENT_CONFIG \cup {UnknownId}

\* ---------------------------------------------------------- scope argument
\* Text is a sequence of tokens: a blank, a comma, or a word.  A word is
\* written in lower case or in upper case.
Blank == " "
Comma == ","

WordsUpper == {"CREWAI", "LANGCHAIN", "LLAMAINDEX", "OTHER", "ALL"}

\* str.lower() on a token.
LowerToken(t) ==
    CASE t = "CREWAI" -> "crewai"
      [] t = "LANGCHAIN" -> "langchain"
      [] t = "LLAMAINDEX" -> "llamaindex"
      [] t = "OTHER" -> "other"
      [] t = "ALL" -> "all"
      [] OTHER -> t

WordsLower == {LowerToken(w) : w \in WordsUpper}
Words == WordsUpper \cup WordsLower

\* Faulty variant: the text is not lower-cased.
lower_Identity(text) == text

\* str.lower() on a text.
lower(text) == [i \in 1..Len(text) |-> LowerToken(text[i])]

\* str.strip(): leading and trailing blanks removed.
RECURSIVE lstrip(_)
lstrip(text) ==
    IF text # <<>> /\ Head(text) = Blank THEN lstrip(Tail(text)) ELSE text

RECURSIVE rstrip(_)
rstrip(text) ==
    IF text # <<>> /\ text[Len(text)] = Blank
    THEN rstrip(SubSeq(text, 1, Len(text) - 1)) ELSE text

strip(text) == rstrip(lstrip(text))

\* str.split(","): the pieces between the commas (one piece for no comma).
RECURSIVE split(_)
split(text) ==
    IF \A i \in 1..Len(text) : text[i] # Comma THEN <<text>>
    ELSE LET k == CHOOSE i \in 1..Len(text) :
                     text[i] = Comma /\ \A j \in 1..(i - 1) : text[j] # Comma
         IN <<SubSeq(text, 1, k - 1)>> \o split(SubSeq(text, k + 1, Len(text)))

\* The string a one-word text is; a client id is one word.
AsId(text) == IF Len(text) = 1 THEN text[1] ELSE UnknownId

\* "[s.strip().lower() for s in items if s.strip()]".
RECURSIVE Cleaned(_)
Cleaned(items) ==
    IF items = <<>> THEN <<>>
    ELSE (IF strip(Head(items)) # <<>>
          THEN <<AsId(lower(strip(Head(items))))>> ELSE <<>>)
         \o Cleaned(Tail(items))

\* The scope argument: None, a string or a list of strings.
NoneArg == [kind |-> "none", text |-> <<>>, items |-> <<>>]
StrArg(text) == [kind |-> "str", text |-> text, items |-> <<>>]
ListArg(items) == [kind |-> "list", text |-> <<>>, items |-> items]

_parse_scope(scope) ==
    IF scope.kind = "none" \/ (scope.kind = "str" /\ scope.text = <<"all">>)
    THEN _ALL_CLIENTS
    ELSE IF scope.kind = "list"
    THEN Cleaned(scope.items)
    ELSE Cleaned(split(scope.text))

\* The arguments the runs of the pipeline are started with: absent, empty,
\* single ids, pairs, a repeated id, an unknown id.
ScopeArgs ==
    { NoneArg, StrArg(<<>>),
      StrArg(<<"crewai">>), StrArg(<<Blank, "LANGCHAIN", Blank>>),
      ListArg(<<<<"llamaindex">>>>), StrArg(<<UnknownId>>),
      StrArg(<<"crewai", Comma, "langchain">>),
      ListArg(<<<<"llamaindex">>, <<"CREWAI">>>>),
      StrArg(<<"langchain", Comma, Blank, "langchain">>),
      StrArg(<<UnknownId, Comma, "crewai">>) }

\* The scope lists run_pipeline works on (the values of _parse_scope): the
\* full list, the empty list, single ids, pairs, a repeated id, an unknown id.
ScopeInputs == {_parse_scope(a) : a \in ScopeArgs}

\* ------------------------------------------------------------ file system
SrcA == "pkg/a.py"
SrcB == "pkg/b.py"
TestT == "tests/test_a.py"

SrcPaths == {SrcA, SrcB}
TestPaths == {TestT}
Paths == SrcPaths \cup TestPaths

\* Content tokens: "none" = no such file, "orig" = content before the run,
\* "new" = well-formed source from the oracle, "bad" = text that does not
\* compile.
Codes == {"orig", "new", "bad"}

\* A repository with one source file and tests, with two source files and
\* tests, and with one source file and no tests/ directory.
RepoSingle == [p \in Paths |-> IF p = SrcB THEN "none" ELSE "orig"]
RepoMulti == [p \in Paths |-> "orig"]
RepoNoTests == [p \in Paths |-> IF p = SrcA THEN "orig" ELSE "none"]

\* The repositories of a run: one of each kind.
Layout ==
    [c \in _CLIENT_CONFIG |->
        IF c = "crewai" THEN RepoSingle
        ELSE IF c = "langchain" THEN RepoMulti ELSE RepoNoTests]

\* ---------------------------------------------------------------- helpers
\* The elements of a list.
Range(s) == {s[i] : i \in 1..Len(s)}

\* The lists of a list, one after the other.
RECURSIVE Flat(_)
Flat(items) == IF items = <<>> THEN <<>> ELSE Head(items) \o Flat(Tail(items))

Put(f, k, v) == [x \in DOMAIN f \cup {k} |-> IF x = k THEN v ELSE f[x]]

EmptyDict == [x \in {} |-> 0]

\* read_all_sources / read_all_test_files: the paths present on disk.
read_all_sources(d, c) == {p \in SrcPaths : d[c][p] # "none"}

read_all_test_files(d, c) == {p \in TestPaths : d[c][p] # "none"}

\* Faulty variant: a test path is resolved for every repository (a fallback
\* to some other tests directory).
_get_test_path_Fallback(d, c) == TRUE

\* _get_test_path: the repository has a tests/ directory (a directory is on
\* disk exactly when a file is under it).
_get_test_path(d, c) == \E p \in TestPaths : d[c][p] # "none"

\* ---------------------------------------------------------- oracle output
\* A response is its marker convention, the labelled blocks it holds (after
\* sanitizing) and the sanitized text of the whole response.
Formats == {"eq", "fenced", "none"}

Block(p, c) == [path |-> p, code |-> c]

\* The responses the oracle gives: a valid file under the primary markers; a
\* rejected source block and a valid test file under the primary markers; a
\* valid file in a fenced block (the text as a whole does not compile); bare
\* source with no label at all.
Instructed == [fmt |-> "eq", blocks |-> <<Block(SrcA, "new")>>, whole |-> "bad"]

Responses ==
    { Instructed,
      [fmt |-> "eq", blocks |-> <<Block(SrcA, "bad"), Block(TestT, "new")>>, whole |-> "bad"],
      [fmt |-> "fenced", blocks |-> <<Block(SrcA, "new")>>, whole |-> "bad"],
      [fmt |-> "none", blocks |-> <<>>, whole |-> "new"] }

\* transform._parse_multi_file_response: only the ==== FILE: markers.
ParseTransform(r) == IF r.fmt = "eq" THEN r.blocks ELSE <<>>

\* test_heal._parse_multi_file_response: markers, fenced blocks, headers.
ParseHeal(r) == IF r.fmt \in {"eq", "fenced", "alt"} THEN r.blocks ELSE <<>>

\* _validate_python: compile() accepts the text.
_validate_python(code) == code # "bad"

\* ------------------------------------------------------------------ state
VARIABLES
    scope_arg,  \* the scope argument of run_pipeline
    pc,         \* position of run_pipeline: stage1..stage4, returned
    targets,    \* _parse_scope(scope): the report's scope list
    disk,       \* disk[c][p]: content of path p in client c's repository
    analysis,   \* results["analysis"]
    transform,  \* results["transform"]
    tests,      \* results["tests"]
    prs,        \* results["prs"]
    success,    \* results["success"]
    errors,     \* results["errors"]
    pool,       \* transform_all: the executor, its futures and its results
    loop,       \* run_and_heal_all: the current target's test+heal loop
    pub,        \* create_prs: the current target and the local results
    ops,        \* history: what the environment has been asked to do
    hist,       \* history: how each target's last test+heal loop went
    cb,         \* the notify argument of run_pipeline and what it has done
    call,       \* a call into an integration: its arguments and what it did
    git         \* the repositories as git sees them (they are not cloned anew)

\* The state of run_pipeline and of its environment, the callback apart.
progvars == <<scope_arg, pc, targets, disk, analysis, transform, tests, prs, success,
              errors, pool, loop, pub, ops, hist>>

vars == <<progvars, cb, call, git>>

report == <<targets, analysis, transform, tests, prs, success, errors>>

ErrorEntry(k, a, t) == [kind |-> k, about |-> a, text |-> t]

NoPool == [state |-> "idle", task |-> <<>>, results |-> <<>>, raised |-> FALSE]

\* notes: the messages the loop has passed to _notify (history).
NoLoop == [idx |-> 0, pc |-> "idle", round_num |-> 0, pending |-> <<>>,
           outs |-> <<>>, heals |-> 0, raisedAt |-> 0, notes |-> <<>>]

\* calls: the git, gh and oracle operations create_prs has invoked (history).
NoPub == [idx |-> 0, pc |-> "idle", results |-> EmptyDict, calls |-> <<>>]

NoOps == [analyze |-> 0, transform |-> 0, test |-> 0, pr |-> 0, faults |-> 0, fails |-> 0,
          malformed |-> 0]

\* notify: None (the default), or a callable; raised: the callable has
\* raised in some invocation.
NoCallback == [supplied |-> FALSE, raised |-> FALSE]

Callback == [supplied |-> TRUE, raised |-> FALSE]

\* git[c], the repository of client c as git sees it when Stage 4 begins:
\* "ready": the branch can be created or checked out and the files differ
\* from HEAD; "clean": git commit finds nothing to commit; "stuck": neither
\* "git checkout -b" nor "git checkout" of the branch succeeds.
GitStates == {"ready", "clean", "stuck"}

GitReady == [c \in Ids |-> "ready"]

\* run_pipeline is entered: the results dict as constructed.
InitPipeline ==
    /\ pc = "stage1"
    /\ scope_arg \in ScopeArgs
    /\ targets = _parse_scope(scope_arg)
    /\ disk = Layout
    /\ analysis = "null"
    /\ transform = <<>>
    /\ tests = EmptyDict
    /\ prs = EmptyDict
    /\ success = FALSE
    /\ errors = <<>>
    /\ pool = NoPool
    /\ loop = NoLoop
    /\ pub = NoPub
    /\ ops = NoOps
    /\ hist = EmptyDict
    /\ git = GitReady

\* No call into an integration is under way (the pipeline makes none).
NoCall == [pc |-> "idle"]

\* run_pipeline(report_content, branch, scope): notify is left at None.
Init == InitPipeline /\ cb = NoCallback /\ call = NoCall

\* --------------------------------------------------------------- callback
\* Faulty variant: the exception of the callback leaves _notify.
notify_exception_Propagates == FALSE

\* "except Exception" around notify(msg) in run_pipeline._notify.
notify_exception_caught == TRUE

\* A step A of the pipeline that calls _notify n times: "if notify:" each
\* call invokes the callback, and each invocation returns or raises.
Notifying(n, A) ==
    IF ~cb.supplied
    THEN A /\ UNCHANGED <<cb, call, git>>
    ELSE \E raises \in BOOLEAN :
            IF raises /\ ~notify_exception_caught
            THEN /\ pc' = "raised"
                 /\ loop' = NoLoop
                 /\ cb' = [cb EXCEPT !.raised = TRUE]
                 /\ UNCHANGED <<scope_arg, targets, disk, analysis, transform, tests, prs,
                                success, errors, pool, pub, ops, hist, call, git>>
            ELSE /\ A
                 /\ raises => n > 0
                 /\ cb' = [cb EXCEPT !.raised = @ \/ raises]
                 /\ UNCHANGED <<call, git>>

\* A step of the pipeline that does not call _notify.
Quiet(A) == A /\ UNCHANGED <<cb, call, git>>

\* ---------------------------------------------------------------- stage 1
\* Outcomes of analyze_diff: call_claude raises, json.loads raises, or the
\* decoded object is returned.
AnalyzeOutcomes == {"ok", "cli_error", "bad_json"}

\* Faulty variant: run_pipeline goes on to Stage 2 after analyze_diff raised.
AfterStage1Failure_Continue == "stage2"

\* Where run_pipeline goes when analyze_diff raised: "return results".
AfterStage1Failure == "returned"

\* An oracle call may still raise within the run's bound of failures.
MayFault == ops.faults < MaxFaults

Fault(o) == [o EXCEPT !.faults = @ + 1]

\* The oracle may answer r within the run's bound of malformed responses.
MayAnswer(r) == r \in Responses /\ (r # Instructed => ops.malformed < MaxMalformed)

Answered(o, r) == IF r = Instructed THEN o ELSE [o EXCEPT !.malformed = @ + 1]

Stage1 ==
    /\ pc = "stage1"
    /\ \E out \in AnalyzeOutcomes :
          IF out = "ok"
          THEN /\ analysis' = "analysis"
               /\ pc' = "stage2"
               /\ ops' = [ops EXCEPT !.analyze = @ + 1]
               /\ UNCHANGED errors
          ELSE /\ errors' = Append(errors, ErrorEntry("stage1", {}, out))
               /\ pc' = AfterStage1Failure
               /\ ops' = [ops EXCEPT !.analyze = @ + 1]
               /\ UNCHANGED analysis
    /\ UNCHANGED <<scope_arg, targets, disk, transform, tests, prs, success, pool, loop,
                   pub, hist>>

\* ---------------------------------------------------------------- stage 2
\* "targets = scope or all_clients()" in transform_all, run_and_heal_all and
\* create_prs: an empty list is falsy.
ScopeOrAll(scope) == IF scope = <<>> THEN all_clients ELSE scope

Task(c, p) == [client |-> c, pc |-> p, pending |-> <<>>]

TransformResult(c, ok, err) == [client |-> c, success |-> ok, error |-> err]

\* Faulty variant: the exception of a future leaves transform_all.
future_exception_Propagates == FALSE

\* "except Exception" around future.result() in transform_all.
future_exception_caught == TRUE

\* Faulty variant: the with-block leaves as soon as one future has finished.
AllTasksDone_Any(p) == \E i \in 1..Len(p.task) : p.task[i].pc \in {"done", "unsubmitted"}

\* The with-block of transform_all leaves (shutdown(wait=True)) once every
\* submitted future has finished.
AllTasksDone(p) == \A i \in 1..Len(p.task) : p.task[i].pc \in {"done", "unsubmitted"}

\* A future finished with a returned dict: as_completed yields it and the
\* main thread appends it, in order of completion.
Returned(p, i, res) ==
    [p EXCEPT !.task[i].pc = "done", !.task[i].pending = <<>>,
              !.results = Append(@, res)]

\* A future finished with an exception: future.result() re-raises it.
Raised(p, i, exc) ==
    IF future_exception_caught
    THEN Returned(p, i, TransformResult(p.task[i].client, FALSE, exc))
    ELSE [p EXCEPT !.task[i].pc = "done", !.task[i].pending = <<>>, !.raised = TRUE]

\* Faulty variant: a block is written without looking at _validate_python.
WriteBlock_Unchecked(d, c, b) == [d EXCEPT ![c][b.path] = b.code]

\* The write loops of _transform_one and _heal: a block is written only when
\* _validate_python accepts it.
WriteBlock(d, c, b) ==
    IF _validate_python(b.code) THEN [d EXCEPT ![c][b.path] = b.code] ELSE d

\* The single-file fallback: the whole response becomes the only file.
Fallback(files, r) == <<Block(CHOOSE p \in files : TRUE, r.whole)>>

\* Faulty variant: the fallback is taken whenever some file was read.
FallbackApplies_NonEmpty(files) == files # {}

\* "len(sources) == 1", "len(test_sources) == 1".
FallbackApplies(files) == Cardinality(files) = 1

\* transform_all up to the end of the submit comprehension: k futures are
\* submitted; k < len(targets) when pool.submit raises (no thread can start).
TransformSubmit ==
    /\ pc = "stage2"
    /\ pool.state = "idle"
    /\ LET ts == ScopeOrAll(targets)
       IN \E k \in 0..Len(ts) :
             /\ k < Len(ts) => MayFault
             /\ pool' = [state |-> "running",
                         task |-> [i \in 1..Len(ts) |->
                                      Task(ts[i], IF i <= k THEN "start" ELSE "unsubmitted")],
                         results |-> <<>>,
                         raised |-> (k < Len(ts))]
             /\ ops' = [ops EXCEPT !.transform = 1,
                                   !.faults = IF k < Len(ts) THEN @ + 1 ELSE @]
    /\ UNCHANGED <<scope_arg, pc, targets, disk, analysis, transform, tests, prs, success,
                   errors, loop, pub, hist>>

\* call_claude returns r in the source cycle of task i: parse, single-file
\* fallback, or the failure dict.
SourceAnswer(i, r) ==
    LET c == pool.task[i].client
        sources == read_all_sources(disk, c)
        parsed == ParseTransform(r)
    IN /\ MayAnswer(r)
       /\ ops' = Answered(ops, r)
       /\ IF parsed # <<>>
          THEN pool' = [pool EXCEPT !.task[i].pc = "write", !.task[i].pending = parsed]
          ELSE IF FallbackApplies(sources)
          THEN pool' = [pool EXCEPT !.task[i].pc = "write",
                                      !.task[i].pending = Fallback(sources, r)]
          ELSE pool' = Returned(pool, i, TransformResult(c, FALSE, "parse"))

\* _transform_one up to the first write: read the sources, call the oracle,
\* parse, single-file fallback.
TaskCall(i) ==
    /\ i \in 1..Len(pool.task)
    /\ pool.task[i].pc = "start"
    /\ LET c == pool.task[i].client
       IN IF c \notin _CLIENT_CONFIG
          THEN pool' = Raised(pool, i, "KeyError") /\ UNCHANGED ops
          ELSE \/ /\ MayFault
                  /\ pool' = Raised(pool, i, "cli_error")
                  /\ ops' = Fault(ops)
               \/ \E r \in Responses : SourceAnswer(i, r)
    /\ UNCHANGED <<scope_arg, pc, targets, disk, analysis, transform, tests, prs, success,
                   errors, loop, pub, hist>>

\* One iteration of a write loop of _transform_one (source or test cycle).
TaskWrite(i) ==
    /\ i \in 1..Len(pool.task)
    /\ pool.task[i].pc \in {"write", "write_tests"}
    /\ pool.task[i].pending # <<>>
    /\ disk' = WriteBlock(disk, pool.task[i].client, Head(pool.task[i].pending))
    /\ pool' = [pool EXCEPT !.task[i].pending = Tail(@)]
    /\ UNCHANGED <<scope_arg, pc, targets, analysis, transform, tests, prs, success,
                   errors, loop, pub, ops, hist>>

\* call_claude returns r in the test cycle of task i: parse, single-file
\* fallback; an empty mapping writes nothing.
TestAnswer(i, r) ==
    LET test_sources == read_all_test_files(disk, pool.task[i].client)
        parsed == ParseTransform(r)
    IN /\ MayAnswer(r)
       /\ ops' = Answered(ops, r)
       /\ pool' = [pool EXCEPT
                     !.task[i].pc = "write_tests",
                     !.task[i].pending =
                         IF parsed = <<>> /\ FallbackApplies(test_sources)
                         THEN Fallback(test_sources, r)
                         ELSE parsed]

\* Phase 2 of _transform_one up to its first write: read the test files and,
\* when there are some, call the oracle, parse, single-file fallback.
TaskTests(i) ==
    /\ i \in 1..Len(pool.task)
    /\ pool.task[i].pc = "write"
    /\ pool.task[i].pending = <<>>
    /\ LET c == pool.task[i].client
           test_sources == read_all_test_files(disk, c)
       IN IF test_sources = {}
          THEN pool' = Returned(pool, i, TransformResult(c, TRUE, "")) /\ UNCHANGED ops
          ELSE \/ /\ MayFault
                  /\ pool' = Raised(pool, i, "cli_error")
                  /\ ops' = Fault(ops)
               \/ \E r \in Responses : TestAnswer(i, r)
    /\ UNCHANGED <<scope_arg, pc, targets, disk, analysis, transform, tests, prs, success,
                   errors, loop, pub, hist>>

\* _transform_one returns its success dict.
TaskReturn(i) ==
    /\ i \in 1..Len(pool.task)
    /\ pool.task[i].pc = "write_tests"
    /\ pool.task[i].pending = <<>>
    /\ pool' = Returned(pool, i, TransformResult(pool.task[i].client, TRUE, ""))
    /\ UNCHANGED <<scope_arg, pc, targets, disk, analysis, transform, tests, prs, success,
                   errors, loop, pub, ops, hist>>

\* The errors run_pipeline appends for the failed transform results, in order.
RECURSIVE TransformErrors(_)
TransformErrors(rs) ==
    IF rs = <<>> THEN <<>>
    ELSE (IF Head(rs).success THEN <<>>
          ELSE <<ErrorEntry("transform", {Head(rs).client}, Head(rs).error)>>)
         \o TransformErrors(Tail(rs))

\* Faulty variant: run_pipeline returns when some transform result failed.
AfterTransform_AbortOnFailure(rs) ==
    IF \E i \in 1..Len(rs) : ~rs[i].success THEN "returned" ELSE "stage3"

\* Where run_pipeline goes once transform_all has returned its results:
\* failed results are recorded in errors and Stage 3 follows.
AfterTransform(rs) == "stage3"

\* transform_all returns (or raises) and run_pipeline records the outcome.
TransformReturn ==
    /\ pc = "stage2"
    /\ pool.state = "running"
    /\ AllTasksDone(pool)
    /\ pool' = [pool EXCEPT !.state = "closed"]
    /\ IF pool.raised
       THEN /\ errors' = Append(errors, ErrorEntry("stage2", {}, "pool"))
            /\ pc' = "returned"
            /\ UNCHANGED <<transform, loop>>
       ELSE /\ transform' = pool.results
            /\ errors' = errors \o TransformErrors(pool.results)
            /\ pc' = AfterTransform(pool.results)
            /\ loop' = [NoLoop EXCEPT !.idx = 1, !.pc = "begin"]
    /\ UNCHANGED <<scope_arg, targets, disk, analysis, tests, prs, success, pub, ops, hist>>

\* ---------------------------------------------------------------- stage 3
TestHealRecord(ok, rounds, sum) ==
    [passed |-> ok, rounds_used |-> rounds, summary |-> sum]

LoopHistory(l) ==
    [outs |-> l.outs, heals |-> l.heals, raisedAt |-> l.raisedAt, notes |-> l.notes]

\* _notify(msg) in _test_and_heal_one: the message is handed to the callback
\* of run_and_heal_all, which is run_pipeline's _notify.
Notified(l, msg) == [l EXCEPT !.notes = Append(@, msg)]

\* Faulty variant: every failing run is followed by a heal.
HealAllowed_Always(round_num) == TRUE

\* "if round_num < MAX_HEAL_ROUNDS": a failing run is followed by a heal.
HealAllowed(round_num) == round_num < MAX_HEAL_ROUNDS

\* Faulty variant: the loop ranges over one round more.
InRange_OneMore(round_num) == round_num < MAX_HEAL_ROUNDS + 2

\* "for round_num in range(MAX_HEAL_ROUNDS + 1)": there is a next iteration.
InRange(round_num) == round_num < MAX_HEAL_ROUNDS + 1

\* Faulty variant: the record holds the loop index itself.
RoundsUsed_Index(round_num) == round_num

\* "rounds_used": round_num + 1 in the record _test_and_heal_one returns.
RoundsUsed(round_num) == round_num + 1

\* Faulty variant: the loop goes on to the next round after _heal raised.
AfterHealRaise_Continue == "continue"

\* What the loop does when _heal raised: "break".
AfterHealRaise == "break"

\* run_and_heal_all moves on to the next client of its list.
LoopNext(l) == [NoLoop EXCEPT !.idx = l.idx + 1, !.pc = "begin"]

\* Faulty variant: no failure message after the loop.
AfterLoop_Silent(l, ok) == l

\* "if not passed: _notify(...)" after the loop.
AfterLoop(l, ok) == IF ok THEN l ELSE Notified(l, "failed")

\* The loop is left and _test_and_heal_one returns its record.
Terminate(c, l, ok) ==
    /\ tests' = Put(tests, c, TestHealRecord(ok, RoundsUsed(l.round_num), "pytest"))
    /\ hist' = Put(hist, c, LoopHistory(AfterLoop(l, ok)))
    /\ loop' = LoopNext(l)

\* The end of one iteration of the for loop without break.
EndIteration(c, l) ==
    IF InRange(l.round_num + 1)
    THEN /\ loop' = [l EXCEPT !.pc = "run", !.round_num = @ + 1, !.pending = <<>>]
         /\ UNCHANGED <<tests, hist>>
    ELSE Terminate(c, l, FALSE)

\* Faulty variant: an exception of _test_and_heal_one leaves run_and_heal_all
\* (and is caught by run_pipeline as a Stage 3 failure).
loop_exception_Propagates == FALSE

\* "except Exception" around _test_and_heal_one in run_and_heal_all.
loop_exception_caught == TRUE

\* _test_and_heal_one up to the loop: resolve the test path.  An unknown id
\* raises KeyError, which run_and_heal_all turns into an error record.
HealBegin ==
    /\ pc = "stage3"
    /\ loop.pc = "begin"
    /\ loop.idx <= Len(ScopeOrAll(targets))
    /\ LET c == ScopeOrAll(targets)[loop.idx]
       IN IF c \notin _CLIENT_CONFIG
          THEN IF loop_exception_caught
               THEN /\ tests' = Put(tests, c, TestHealRecord(FALSE, 0, "error"))
                    /\ hist' = Put(hist, c, LoopHistory(Notified(loop, "error")))
                    /\ loop' = LoopNext(loop)
                    /\ UNCHANGED <<pc, errors>>
               ELSE /\ errors' = Append(errors, ErrorEntry("stage3", {}, "KeyError"))
                    /\ pc' = "returned"
                    /\ loop' = NoLoop
                    /\ UNCHANGED <<tests, hist>>
          ELSE IF ~_get_test_path(disk, c)
          THEN /\ tests' = Put(tests, c, TestHealRecord(FALSE, 0, "skipped"))
               /\ hist' = Put(hist, c, LoopHistory(Notified(loop, "skipped")))
               /\ loop' = LoopNext(loop)
               /\ UNCHANGED <<pc, errors>>
          ELSE /\ loop' = [Notified(loop, "running") EXCEPT !.pc = "run"]
               /\ UNCHANGED <<pc, errors, tests, hist>>
    /\ UNCHANGED <<scope_arg, targets, disk, analysis, transform, prs, success, pool, pub, ops>>

\* Faulty variant: the loop goes on to the next round after a passing run.
AfterPass_Continue == "continue"

\* What the loop does when _run_pytest returned passed: "break".
AfterPass == "break"

\* One _run_pytest and the branch taken on its exit code.
RunTests ==
    /\ loop.pc = "run"
    /\ \E passed \in BOOLEAN :
          LET c == ScopeOrAll(targets)[loop.idx]
              l == [loop EXCEPT !.outs = Append(@, passed)]
          IN /\ ~passed => ops.fails < MaxTestFailures
             /\ ops' = [ops EXCEPT !.test = 1,
                                   !.fails = IF passed THEN @ ELSE @ + 1]
             /\ IF passed
                THEN IF AfterPass = "break"
                     THEN Terminate(c, Notified(l, "passed"), TRUE)
                     ELSE EndIteration(c, Notified(l, "passed"))
                ELSE IF HealAllowed(l.round_num)
                THEN /\ loop' = [Notified(l, "healing") EXCEPT !.pc = "heal"]
                     /\ UNCHANGED <<tests, hist>>
                ELSE EndIteration(c, l)
    /\ UNCHANGED <<scope_arg, pc, targets, disk, analysis, transform, prs, success, errors,
                   pool, pub>>

\* _heal up to its first write: read the files, call the oracle, parse,
\* single-file fallback; or the oracle call raises.
Heal ==
    /\ loop.pc = "heal"
    /\ LET c == ScopeOrAll(targets)[loop.idx]
           l == [loop EXCEPT !.heals = @ + 1]
           raised == Notified([l EXCEPT !.raisedAt = l.round_num + 1], "heal failed")
       IN \/ /\ MayFault
             /\ ops' = Fault(ops)
             /\ IF AfterHealRaise = "break"
                THEN Terminate(c, raised, FALSE)
                ELSE EndIteration(c, raised)
          \/ \E r \in Responses :
                LET sources == read_all_sources(disk, c)
                    parsed == ParseHeal(r)
                    updated == IF parsed = <<>> /\ Cardinality(sources) = 1
                               THEN Fallback(sources, r) ELSE parsed
                IN /\ MayAnswer(r)
                   /\ ops' = Answered(ops, r)
                   /\ IF updated = <<>>
                      THEN EndIteration(c, l)
                      ELSE /\ loop' = [l EXCEPT !.pc = "apply", !.pending = updated]
                           /\ UNCHANGED <<tests, hist>>
    /\ UNCHANGED <<scope_arg, pc, targets, disk, analysis, transform, prs, success, errors,
                   pool, pub>>

\* One iteration of the write loop of _heal; after the last one _heal
\* returns and the for loop goes on.
HealWrite ==
    /\ loop.pc = "apply"
    /\ loop.pending # <<>>
    /\ LET c == ScopeOrAll(targets)[loop.idx]
           l == [loop EXCEPT !.pending = Tail(@)]
       IN /\ disk' = WriteBlock(disk, c, Head(loop.pending))
          /\ IF l.pending = <<>>
             THEN EndIteration(c, l)
             ELSE loop' = l /\ UNCHANGED <<tests, hist>>
    /\ UNCHANGED <<scope_arg, pc, targets, analysis, transform, prs, success, errors,
                   pool, pub, ops>>

\* Faulty variant: one passing record is enough.
all_passed_Any(t) == \E c \in DOMAIN t : t[c].passed

\* "all(tr["passed"] for tr in test_results.values())".
all_passed(t) == \A c \in DOMAIN t : t[c].passed

\* Faulty variant: every target with a record is listed.
failing_All(t) == DOMAIN t

\* "failing = [c for c, tr in test_results.items() if not tr["passed"]]".
failing(t) == {c \in DOMAIN t : ~t[c].passed}

\* run_and_heal_all returns; run_pipeline decides whether Stage 4 runs.
TestsReturn ==
    /\ pc = "stage3"
    /\ loop.pc = "begin"
    /\ loop.idx > Len(ScopeOrAll(targets))
    /\ loop' = NoLoop
    /\ IF all_passed(tests)
       THEN /\ pc' = "stage4"
            /\ pub' = [NoPub EXCEPT !.idx = 1, !.pc = "begin"]
            /\ UNCHANGED errors
       ELSE /\ errors' = Append(errors, ErrorEntry("prs_skipped", failing(tests), "failing"))
            /\ pc' = "returned"
            /\ UNCHANGED pub
    /\ UNCHANGED <<scope_arg, targets, disk, analysis, transform, tests, prs, success,
                   pool, ops, hist>>

\* ---------------------------------------------------------------- stage 4
PullRequestResult(sk, u, e) == [skipped |-> sk, url |-> u, error |-> e]

PubNext(p, c, res) ==
    [p EXCEPT !.idx = @ + 1, !.pc = "begin", !.results = Put(@, c, res)]

\* An operation create_prs invokes for a client: create_branch,
\* commit_and_push, _draft_pr_content (the oracle), _open_pr_with_gh; ok is
\* whether it returned success.
Call(c, op, ok) == [client |-> c, op |-> op, ok |-> ok]

\* Faulty variant: create_prs goes on to the PR draft after a failed push.
AfterPushFailure_GoOn == "draft"

\* What create_prs does once the push-failure result is stored: "continue".
AfterPushFailure == "continue"

\* Faulty variant: a target without test record counts as passed.
TestsPassedFor_MissingOk(t, c) == c \notin DOMAIN t \/ t[c].passed

\* "t = test_results.get(client, {})", "t.get("passed", False)".
TestsPassedFor(t, c) == c \in DOMAIN t /\ t[c].passed

\* Faulty variant: a failed push is stored as a skipped target.
PushFailure_Skipped == PullRequestResult(TRUE, "none", "git push failed")

\* The result create_prs stores for a target whose push failed.
PushFailure == PullRequestResult(FALSE, "none", "git push failed")

\* create_branch: True unless both checkouts fail.
create_branch(g) == g # "stuck"

\* The git operations of commit_and_push and the value it returns: "Nothing
\* to commit ... skipping push" returns True without running git push.
GitCalls(c, g, pushed) ==
    IF g = "clean" THEN <<Call(c, "commit", FALSE)>>
    ELSE <<Call(c, "commit", TRUE), Call(c, "push", pushed)>>

\* create_prs for one client up to the PR draft: the passed check,
\* create_branch (its result is not looked at) and commit_and_push.
PrBegin ==
    /\ pc = "stage4"
    /\ pub.pc = "begin"
    /\ pub.idx <= Len(ScopeOrAll(targets))
    /\ LET c == ScopeOrAll(targets)[pub.idx]
           failed == PushFailure
       IN IF ~TestsPassedFor(tests, c)
          THEN /\ pub' = PubNext(pub, c, PullRequestResult(TRUE, "none", "Tests failed"))
               /\ UNCHANGED ops
          ELSE \E pushed \in BOOLEAN :
                  /\ ~pushed => MayFault /\ git[c] # "clean"
                  /\ ops' = [ops EXCEPT !.pr = 1,
                                        !.faults = IF pushed THEN @ ELSE @ + 1]
                  /\ LET p == [pub EXCEPT !.calls = @ \o <<Call(c, "branch",
                                                                 create_branch(git[c]))>>
                                                         \o GitCalls(c, git[c], pushed)]
                     IN IF pushed
                        THEN pub' = [p EXCEPT !.pc = "draft"]
                        ELSE IF AfterPushFailure = "continue"
                        THEN pub' = PubNext(p, c, failed)
                        ELSE pub' = [p EXCEPT !.pc = "draft", !.results = Put(@, c, failed)]
    /\ UNCHANGED <<scope_arg, pc, targets, disk, analysis, transform, tests, prs, success,
                   errors, pool, loop, hist>>

\* _draft_pr_content: call_claude may raise (nothing in create_prs catches
\* it); undecodable text falls back to the template; decoded JSON without a
\* title makes pr_content["title"] raise.
DraftOutcomes == {"json", "fallback", "bad_shape"}

PrDraft ==
    /\ pc = "stage4"
    /\ pub.pc = "draft"
    /\ LET c == ScopeOrAll(targets)[pub.idx]
       IN \/ /\ MayFault
             /\ ops' = Fault(ops)
             /\ errors' = Append(errors, ErrorEntry("stage4", {}, "cli_error"))
             /\ pc' = "returned"
             /\ pub' = [pub EXCEPT !.calls = Append(@, Call(c, "draft", FALSE))]
          \/ /\ \E out \in DraftOutcomes :
                  LET p == [pub EXCEPT !.calls = Append(@, Call(c, "draft", TRUE))]
                  IN IF out = "bad_shape"
                     THEN /\ errors' = Append(errors, ErrorEntry("stage4", {}, "KeyError"))
                          /\ pc' = "returned"
                          /\ pub' = p
                     ELSE /\ pub' = [p EXCEPT !.pc = "open"]
                          /\ UNCHANGED <<pc, errors>>
             /\ UNCHANGED ops
    /\ UNCHANGED <<scope_arg, targets, disk, analysis, transform, tests, prs, success,
                   pool, loop, hist>>

\* Faulty variant: the RuntimeError of _open_pr_with_gh leaves create_prs.
open_error_Propagates == FALSE

\* "except RuntimeError" around _open_pr_with_gh in create_prs.
open_error_caught == TRUE

\* _open_pr_with_gh: the URL, or RuntimeError caught into an error record.
PrOpen ==
    /\ pc = "stage4"
    /\ pub.pc = "open"
    /\ LET c == ScopeOrAll(targets)[pub.idx]
       IN \E ok \in BOOLEAN :
             LET p == [pub EXCEPT !.calls = Append(@, Call(c, "open", ok))]
             IN /\ ~ok => MayFault
                /\ ops' = [ops EXCEPT !.faults = IF ok THEN @ ELSE @ + 1]
                /\ IF ok
                   THEN /\ pub' = PubNext(p, c, PullRequestResult(FALSE, "url", ""))
                        /\ UNCHANGED <<pc, errors>>
                   ELSE IF open_error_caught
                   THEN /\ pub' = PubNext(p, c, PullRequestResult(FALSE, "none",
                                                                  "gh pr create failed"))
                        /\ UNCHANGED <<pc, errors>>
                   ELSE /\ pub' = p
                        /\ errors' = Append(errors, ErrorEntry("stage4", {}, "gh pr create failed"))
                        /\ pc' = "returned"
    /\ UNCHANGED <<scope_arg, targets, disk, analysis, transform, tests, prs, success,
                   pool, loop, hist>>

\* Faulty variant: success is set whatever errors holds.
Success_Always(errs) == TRUE

\* "results["success"] = len(results["errors"]) == 0".
Success(errs) == Len(errs) = 0

\* create_prs returns; run_pipeline stores prs, computes success, returns.
PrsReturn ==
    /\ pc = "stage4"
    /\ pub.pc = "begin"
    /\ pub.idx > Len(ScopeOrAll(targets))
    /\ prs' = pub.results
    /\ success' = Success(errors)
    /\ pc' = "returned"
    /\ UNCHANGED <<scope_arg, targets, disk, analysis, transform, tests, errors, pool,
                   loop, pub, ops, hist>>

\* ------------------------------------------------------------------- spec
\* The steps of run_pipeline when notify is None: _notify only logs.
Pipeline ==
    \/ Stage1
    \/ TransformSubmit
    \/ \E i \in 1..Len(all_clients) : TaskCall(i)
    \/ \E i \in 1..Len(all_clients) : TaskWrite(i)
    \/ \E i \in 1..Len(all_clients) : TaskTests(i)
    \/ \E i \in 1..Len(all_clients) : TaskReturn(i)
    \/ TransformReturn
    \/ HealBegin
    \/ RunTests
    \/ Heal
    \/ HealWrite
    \/ TestsReturn
    \/ PrBegin
    \/ PrDraft
    \/ PrOpen
    \/ PrsReturn

\* The steps of run_pipeline with the _notify calls each one makes: the start
\* of the stage and its outcome in Stage 1; the start of Stage 2; its outcome
\* and the start of Stage 3; one message per branch of the test+heal loop (two
\* when _heal raised, none when it returned); the test report and the Stage 4
\* decision; the Stage 4 failure; one message per PR result and the last one.
Next ==
    \/ Notifying(2, Stage1)
    \/ Notifying(1, TransformSubmit)
    \/ \E i \in 1..Len(all_clients) : Quiet(TaskCall(i))
    \/ \E i \in 1..Len(all_clients) : Quiet(TaskWrite(i))
    \/ \E i \in 1..Len(all_clients) : Quiet(TaskTests(i))
    \/ \E i \in 1..Len(all_clients) : Quiet(TaskReturn(i))
    \/ Notifying(IF pc' = "stage3" THEN 2 ELSE 1, TransformReturn)
    \/ Notifying(1, HealBegin)
    \/ Notifying(1, RunTests)
    \/ Notifying(IF ops'.faults > ops.faults THEN 2 ELSE 0, Heal)
    \/ Quiet(HealWrite)
    \/ Notifying(2, TestsReturn)
    \/ Quiet(PrBegin)
    \/ Notifying(IF pc' = "returned" THEN 1 ELSE 0, PrDraft)
    \/ Quiet(PrOpen)
    \/ Notifying(Cardinality(DOMAIN prs') + 1, PrsReturn)

Spec == Init /\ [][Next]_vars

\* The runs on a named, proper part of the clients (one or two tasks).
PartialScopes == {s \in ScopeInputs : s # <<>> /\ s # _ALL_CLIENTS}

LiveInit == Init /\ targets \in PartialScopes

\* Fair scheduling: the pipeline's thread and the pool's workers keep running.
LiveSpec == LiveInit /\ [][Next]_vars /\ WF_vars(Next)

\* run_pipeline(report_content, branch, scope, notify = f) on a named,
\* proper part of the clients.
NotifyInit == InitPipeline /\ targets \in PartialScopes /\ cb = Callback /\ call = NoCall

NotifySpec == NotifyInit /\ [][Next]_vars

\* ------------------------------------------------- _parse_scope on its own
\* The elements of a scope argument: empty, blank, or one word in lower or
\* upper case, bare or with blanks before it, after it or around it.
Elems ==
    { <<>>, <<Blank>>,
      <<"crewai">>, <<Blank, "CREWAI", Blank>>,
      <<"LANGCHAIN">>, <<Blank, "langchain">>,
      <<"llamaindex", Blank>>, <<Blank, "LLAMAINDEX", Blank>>,
      <<"other">>, <<"all">>, <<Blank, "ALL">> }

ElemSeqs == UNION {[1..n -> Elems] : n \in 0..MaxElems}

\* ",".join(items)
RECURSIVE join(_)
join(items) ==
    IF items = <<>> THEN <<>>
    ELSE IF Len(items) = 1 THEN Head(items)
    ELSE Head(items) \o <<Comma>> \o join(Tail(items))

\* The arguments _parse_scope is applied to: None, the strings of up to
\* MaxElems comma-separated elements, the lists of up to MaxElems elements.
ParseArgs ==
    {NoneArg} \cup {StrArg(join(items)) : items \in ElemSeqs}
              \cup {ListArg(items) : items \in ElemSeqs}

ParseInit ==
    /\ scope_arg \in ParseArgs
    /\ pc = "parse"
    /\ targets = <<>>
    /\ disk = Layout
    /\ analysis = "null"
    /\ transform = <<>>
    /\ tests = EmptyDict
    /\ prs = EmptyDict
    /\ success = FALSE
    /\ errors = <<>>
    /\ pool = NoPool
    /\ loop = NoLoop
    /\ pub = NoPub
    /\ ops = NoOps
    /\ hist = EmptyDict
    /\ cb = NoCallback
    /\ call = NoCall
    /\ git = GitReady

\* "targets = _parse_scope(scope)": the first statement of run_pipeline.
ParseScope ==
    /\ pc = "parse"
    /\ targets' = _parse_scope(scope_arg)
    /\ pc' = "stage1"
    /\ UNCHANGED <<scope_arg, disk, analysis, transform, tests, prs, success,
                   errors, pool, loop, pub, ops, hist, cb, call, git>>

ParseSpec == ParseInit /\ [][ParseScope]_vars

\* --------------------------------------------------- create_prs on its own
\* The test records create_prs may be given for a target list: any of the
\* targets may lack a record, have a failing one or a passing one.
RecordsFor(ts) ==
    UNION {[D -> {TestHealRecord(TRUE, 1, "pytest"), TestHealRecord(FALSE, 1, "pytest")}] :
              D \in SUBSET Range(ts)}

\* create_prs(branch, analysis, test_results, scope) is called.
PrInit ==
    /\ scope_arg \in ScopeArgs
    /\ targets = _parse_scope(scope_arg)
    /\ tests \in RecordsFor(ScopeOrAll(targets))
    /\ pc = "stage4"
    /\ pub = [NoPub EXCEPT !.idx = 1, !.pc = "begin"]
    /\ disk = Layout
    /\ analysis = "analysis"
    /\ transform = <<>>
    /\ prs = EmptyDict
    /\ success = FALSE
    /\ errors = <<>>
    /\ pool = NoPool
    /\ loop = NoLoop
    /\ ops = NoOps
    /\ hist = EmptyDict
    /\ cb = NoCallback
    /\ call = NoCall
    /\ git \in {g \in [Ids -> GitStates] : g[UnknownId] = "ready"}

PrNext == Quiet(PrBegin) \/ Quiet(PrDraft) \/ Quiet(PrOpen) \/ Quiet(PrsReturn)

PrSpec == PrInit /\ [][PrNext]_vars

\* ------------------------------------------------- transform_all on its own
\* A repository with no file yet, and one with tests and no source file.
RepoScratch == [p \in Paths |-> "none"]
RepoTestsOnly == [p \in Paths |-> IF p = TestT THEN "orig" ELSE "none"]

\* The repositories Stage 2 may find: those of Layout, or one of them still
\* to be written.
Layouts ==
    { Layout,
      [Layout EXCEPT !["llamaindex"] = RepoScratch],
      [Layout EXCEPT !["crewai"] = RepoTestsOnly] }

\* run_pipeline has finished Stage 1 and calls transform_all(analysis, scope).
TransformInit ==
    /\ scope_arg \in ScopeArgs
    /\ targets = _parse_scope(scope_arg)
    /\ disk \in Layouts
    /\ pc = "stage2"
    /\ analysis = "analysis"
    /\ transform = <<>>
    /\ tests = EmptyDict
    /\ prs = EmptyDict
    /\ success = FALSE
    /\ errors = <<>>
    /\ pool = NoPool
    /\ loop = NoLoop
    /\ pub = NoPub
    /\ ops = [NoOps EXCEPT !.analyze = 1]
    /\ hist = EmptyDict
    /\ cb = NoCallback
    /\ call = NoCall
    /\ git = GitReady

TransformNext ==
    \/ Quiet(TransformSubmit)
    \/ \E i \in 1..Len(pool.task) : Quiet(TaskCall(i))
    \/ \E i \in 1..Len(pool.task) : Quiet(TaskWrite(i))
    \/ \E i \in 1..Len(pool.task) : Quiet(TaskTests(i))
    \/ \E i \in 1..Len(pool.task) : Quiet(TaskReturn(i))
    \/ Quiet(TransformReturn)

TransformSpec == TransformInit /\ [][TransformNext]_vars

\* ------------------------- langchain_endee: EndeeVectorStore on its own
\* Python's None.
None == "None"

\* The k of a search ranges over 1..MaxK.
MaxK == 3

Queries == {"hello", "test"}

\* Metadata filter expressions, as the caller writes them.
Filters == {"[{category: {$eq: B}}]", "[{year: {$gt: 2020}}, {category: {$eq: A}}]"}

\* prefilter_cardinality_threshold and filter_boost_percentage: the defaults
\* and another value of the valid range.
Thresholds == {"10_000", "25_000"}
Boosts == {"0.0", "30"}

\* **kwargs of the caller: none, or one further keyword of index.query.
ExtraKwargs == {EmptyDict, [x \in {"ef"} |-> "128"]}

\* What index.query returns: a dict with the matches, each with its score
\* and its metadata (the text under text_key).
Match(t, sc) == [text |-> t, score |-> sc]

QueryResponses == {<<>>, <<Match("doc one", "0.9")>>,
                   <<Match("doc one", "0.9"), Match("doc two", "0.5")>>}

SearchArgs ==
    [query : Queries, k : 1..MaxK, filter : {None} \cup Filters,
     prefilter_cardinality_threshold : Thresholds,
     filter_boost_percentage : Boosts, kwargs : ExtraKwargs]

\* The keyword arguments of a call: those written out, then **kwargs.
Keywords(named, extra) ==
    [x \in DOMAIN named \cup DOMAIN extra |->
        IF x \in DOMAIN named THEN named[x] ELSE extra[x]]

\* embed_query: the vector of a query text.
embed_query(q) == <<"vector of", q>>

\* The keyword arguments similarity_search_with_score calls index.query with.
QueryKeywords(a) ==
    Keywords([vector |-> embed_query(a.query),
              top_k |-> a.k,
              filter |-> a.filter,
              include_metadata |-> TRUE,
              prefilter_cardinality_threshold |-> a.prefilter_cardinality_threshold,
              filter_boost_percentage |-> a.filter_boost_percentage],
             a.kwargs)

Document(t) == [page_content |-> t]

\* similarity_search_with_score: the (Document, score) pairs of the matches.
similarity_search_with_score(matches) ==
    [i \in 1..Len(matches) |-> <<Document(matches[i].text), matches[i].score>>]

\* similarity_search: the documents of the pairs.
similarity_search(matches) ==
    [i \in 1..Len(matches) |-> similarity_search_with_score(matches)[i][1]]

\* store.similarity_search(query, k, filter, ...) is called.
SearchInit ==
    /\ InitPipeline
    /\ targets = _ALL_CLIENTS
    /\ cb = NoCallback
    /\ call \in {[pc |-> "called", args |-> a, query |-> <<>>, result |-> <<>>] :
                    a \in SearchArgs}

\* The call runs: one index.query, then the documents are returned.
SimilaritySearch ==
    /\ call.pc = "called"
    /\ \E matches \in QueryResponses :
          /\ Len(matches) <= call.args.k
          /\ call' = [call EXCEPT !.pc = "returned",
                                   !.query = <<QueryKeywords(call.args)>>,
                                   !.result = similarity_search(matches)]
    /\ UNCHANGED <<progvars, cb, git>>

SearchSpec == SearchInit /\ [][SimilaritySearch]_vars

\* ------------------------------------- the response parsers on their own
\* A response text is a sequence of lines.  A line is a file label in one of
\* the conventions, a fence, or text:
\*   eq           ==== FILE: <path> ====
\*   fence        ``` or ```python
\*   filecomment  # FILE: <path>
\*   dash         --- <path> ---
\*   hash         ## <path>
\*   code         an unindented line of Python (def, import, an assignment)
\*   body         an indented line
\*   prose        a sentence
\*   blank        an empty line
Line(kind, arg) == [kind |-> kind, arg |-> arg]

Fence == Line("fence", "")
BlankLine == Line("blank", "")
Prose == Line("prose", "Here is the fix")

\* str.strip() on a text: the blank lines at both ends are removed.
RECURSIVE lstrip_lines(_)
lstrip_lines(t) ==
    IF t # <<>> /\ Head(t).kind = "blank" THEN lstrip_lines(Tail(t)) ELSE t

RECURSIVE rstrip_lines(_)
rstrip_lines(t) ==
    IF t # <<>> /\ t[Len(t)].kind = "blank"
    THEN rstrip_lines(SubSeq(t, 1, Len(t) - 1)) ELSE t

strip_lines(t) == rstrip_lines(lstrip_lines(t))

\* re.sub(r"^```(?:python)?\s*", "", t) then re.sub(r"\s*```$", "", t): a
\* fence at the start goes with the blank lines after it, a fence at the end
\* with the blank lines before it.
Unfence(t) ==
    LET a == IF t # <<>> /\ Head(t).kind = "fence" THEN lstrip_lines(Tail(t)) ELSE t
    IN IF a # <<>> /\ a[Len(a)].kind = "fence"
       THEN rstrip_lines(SubSeq(a, 1, Len(a) - 1)) ELSE a

\* python_line.match(line) in _sanitize_code: the line starts, after any
\* indentation ("^\s*"), like Python (a keyword, an assignment, a comment).
\* "body" is an indented line that does ("    return 1"), "call" an indented
\* line that does not ("    f(x)").
PythonLine(l) == l.kind \in {"code", "filecomment", "hash", "body"}

\* line.startswith("    ")
Indented(l) == l.kind \in {"body", "call"}

\* The first loop of _sanitize_code: the first line that looks like Python
\* (the first line of the text when none does).
FirstCode(t) ==
    IF \E i \in 1..Len(t) : PythonLine(t[i])
    THEN CHOOSE i \in 1..Len(t) : PythonLine(t[i]) /\ \A j \in 1..(i - 1) : ~PythonLine(t[j])
    ELSE 1

\* The second loop of _sanitize_code, from idx down to first: blank lines are
\* passed over, an indented or Python-like line ends the scan, any other line
\* is dropped.
RECURSIVE LastCode(_, _, _, _)
LastCode(t, first, idx, last) ==
    IF idx < first THEN last
    ELSE IF t[idx].kind = "blank" THEN LastCode(t, first, idx - 1, last)
    ELSE IF Indented(t[idx]) \/ PythonLine(t[idx]) THEN idx
    ELSE LastCode(t, first, idx - 1, idx - 1)

_sanitize_code(t) ==
    IF t = <<>> THEN <<>>
    ELSE strip_lines(SubSeq(t, FirstCode(t), LastCode(t, FirstCode(t), Len(t), Len(t))))

\* re.split(marker, text): the path of each marker line with the text up to
\* the next marker line.
Markers(t, kinds) == {i \in 1..Len(t) : t[i].kind \in kinds}

RECURSIVE SplitAt(_, _, _)
SplitAt(t, kinds, from) ==
    IF \A i \in from..Len(t) : i \notin Markers(t, kinds) THEN <<>>
    ELSE LET i == CHOOSE k \in from..Len(t) :
                      k \in Markers(t, kinds) /\ \A j \in from..(k - 1) : j \notin Markers(t, kinds)
             rest == {k \in (i + 1)..Len(t) : k \in Markers(t, kinds)}
             stop == IF rest = {} THEN Len(t) + 1
                     ELSE CHOOSE k \in rest : \A j \in rest : k <= j
         IN <<[path |-> t[i].arg, text |-> SubSeq(t, i + 1, stop - 1)]>>
            \o SplitAt(t, kinds, stop)

\* The loop over the parts of a split: a part with a path and text left
\* after strip and fence removal becomes a file, a later part replacing an
\* earlier one of the same path.
RECURSIVE FilesOf(_)
FilesOf(parts) ==
    IF parts = <<>> THEN EmptyDict
    ELSE LET last == parts[Len(parts)]
             code == Unfence(strip_lines(last.text))
             before == FilesOf(SubSeq(parts, 1, Len(parts) - 1))
         IN IF code # <<>> THEN Put(before, last.path, _sanitize_code(code)) ELSE before

\* test_heal._try_parse_eq_markers
_try_parse_eq_markers(t) == FilesOf(SplitAt(t, {"eq"}, 1))

\* test_heal._try_parse_fenced_blocks: pattern.finditer from line i on.  A
\* match is a fence, blank lines or none, a "# FILE:" line, at least one line
\* and the nearest fence after it.
NextText(t, i) ==
    IF \E k \in (i + 1)..Len(t) : t[k].kind # "blank"
    THEN CHOOSE k \in (i + 1)..Len(t) :
            t[k].kind # "blank" /\ \A j \in (i + 1)..(k - 1) : t[j].kind = "blank"
    ELSE Len(t) + 1

RECURSIVE FencedFrom(_, _)
FencedFrom(t, i) ==
    IF i > Len(t) THEN <<>>
    ELSE LET m == NextText(t, i)
             ends == {j \in (m + 2)..Len(t) : t[j].kind = "fence"}
         IN IF t[i].kind = "fence" /\ m <= Len(t) /\ t[m].kind = "filecomment" /\ ends # {}
            THEN LET j == CHOOSE k \in ends : \A n \in ends : k <= n
                 IN <<[path |-> t[m].arg, text |-> SubSeq(t, m + 1, j - 1)]>>
                    \o FencedFrom(t, j + 1)
            ELSE FencedFrom(t, i + 1)

RECURSIVE FencedFiles(_)
FencedFiles(parts) ==
    IF parts = <<>> THEN EmptyDict
    ELSE LET last == parts[Len(parts)]
             code == strip_lines(last.text)
             before == FencedFiles(SubSeq(parts, 1, Len(parts) - 1))
         IN IF code # <<>> THEN Put(before, last.path, _sanitize_code(code)) ELSE before

_try_parse_fenced_blocks(t) == FencedFiles(FencedFrom(t, 1))

\* test_heal._try_parse_alt_separators: the "--- <path> ---" separators, and
\* when they give no file the "# FILE: <path>" and "## <path>" headers.
_try_parse_alt_separators(t) ==
    IF FilesOf(SplitAt(t, {"dash"}, 1)) # EmptyDict
    THEN FilesOf(SplitAt(t, {"dash"}, 1))
    ELSE FilesOf(SplitAt(t, {"filecomment", "hash"}, 1))

\* Faulty variant: the fenced blocks are tried before the primary markers.
heal_parse_FencedFirst(raw) ==
    IF _try_parse_fenced_blocks(strip_lines(raw)) # EmptyDict
    THEN _try_parse_fenced_blocks(strip_lines(raw))
    ELSE IF _try_parse_eq_markers(Unfence(strip_lines(raw))) # EmptyDict
    THEN _try_parse_eq_markers(Unfence(strip_lines(raw)))
    ELSE _try_parse_alt_separators(Unfence(strip_lines(raw)))

\* test_heal._parse_multi_file_response
heal_parse(raw) ==
    LET stripped == Unfence(strip_lines(raw))
    IN IF _try_parse_eq_markers(stripped) # EmptyDict
       THEN _try_parse_eq_markers(stripped)
       ELSE IF _try_parse_fenced_blocks(strip_lines(raw)) # EmptyDict
       THEN _try_parse_fenced_blocks(strip_lines(raw))
       ELSE _try_parse_alt_separators(stripped)

\* transform._parse_multi_file_response: the primary markers only.
transform_parse(raw) == FilesOf(SplitAt(Unfence(strip_lines(raw)), {"eq"}, 1))

\* A response is made of at most MaxChunks pieces.
MaxChunks == 3

\* The pieces of a response: a sentence, an empty line, bare code, a fence, a
\* file in each labelling convention (with and without fences around the
\* code, with a remark after the code), a label with nothing under it.
Chunks ==
    { <<Prose>>,
      <<BlankLine>>,
      <<Fence>>,
      <<Line("code", "def f"), Line("body", "return 1")>>,
      <<Line("eq", SrcA), Line("code", "def a"), Line("body", "return 2")>>,
      <<Line("eq", SrcB), Fence, Line("code", "def b"), Fence, Prose>>,
      <<Line("eq", TestT)>>,
      <<Fence, Line("filecomment", SrcA), Line("code", "def a2"), Fence>>,
      <<Fence, Line("filecomment", TestT), Line("code", "def t"), Line("body", "assert 1"), Fence>>,
      <<Line("dash", SrcA), Line("code", "def a3")>>,
      <<Line("hash", SrcB), Line("code", "def b2")>> }

ChunkSeqs == UNION {[1..n -> Chunks] : n \in 0..MaxChunks}

\* The response texts: the pieces one after the other.
Texts == {Flat(cs) : cs \in ChunkSeqs}

\* call_claude has returned the text raw.
ParserInit ==
    /\ InitPipeline
    /\ targets = _ALL_CLIENTS
    /\ cb = NoCallback
    /\ call \in {[pc |-> "response", raw |-> t, heal |-> EmptyDict, transform |-> EmptyDict] :
                    t \in Texts}

\* Both stages parse the text.
ParseResponse ==
    /\ call.pc = "response"
    /\ call' = [call EXCEPT !.pc = "parsed",
                             !.heal = heal_parse(call.raw),
                             !.transform = transform_parse(call.raw)]
    /\ UNCHANGED <<progvars, cb, git>>

ParserSpec == ParserInit /\ [][ParseResponse]_vars

\* ------------------------------------------------- _sanitize_code on source
MaxLines == 4

\* The lines of a Python source file: a statement python_line matches
\* ("def f():", "x = 1"), an unindented statement it does not match (a call
\* such as "main()", "for ...:", "while ...:", "print(...)"), an indented
\* line it matches, an indented line it does not match, an empty line.
SourceLines ==
    { Line("code", "def f"), Line("code", "x = 1"), Line("stmt", "main()"),
      Line("body", "return 1"), Line("call", "f(x)"), BlankLine }

\* Source files of up to MaxLines lines: there is a line that is not empty
\* and the first such line is not indented.
SourceBlocks ==
    {t \in UNION {[1..n -> SourceLines] : n \in 1..MaxLines} :
        lstrip_lines(t) # <<>> /\ ~Indented(Head(lstrip_lines(t)))}

\* A block of a response that holds a source file and nothing else.
SanitizeInit ==
    /\ InitPipeline
    /\ targets = _ALL_CLIENTS
    /\ cb = NoCallback
    /\ call \in [pc : {"block"}, code : SourceBlocks, cleaned : {<<>>}]

\* code = _sanitize_code(code)
Sanitize ==
    /\ call.pc = "block"
    /\ call' = [call EXCEPT !.pc = "sanitized", !.cleaned = _sanitize_code(call.code)]
    /\ UNCHANGED <<progvars, cb, git>>

SanitizeSpec == SanitizeInit /\ [][Sanitize]_vars

\* ------------------------------------------------- Slack event deduplication
\* Concurrent callers of _is_duplicate_event, and how often the clock moves.
MaxCallers == 3
MaxTicks == 3

_EVENT_TTL == 60

\* Seconds between two readings of time.time() that differ.
TickSeconds == 30

Callers == 1..MaxCallers

EventIds == {"Ev1", "Ev2"}

\* _seen_events is empty, the lock is free, no request is being handled.
DedupInit ==
    /\ InitPipeline
    /\ targets = _ALL_CLIENTS
    /\ cb = NoCallback
    /\ call = [pc |-> [t \in Callers |-> "idle"],
               event_id |-> [t \in Callers |-> "Ev1"],
               now |-> [t \in Callers |-> 0],
               clock |-> 0,
               ticks |-> 0,
               _seen_events |-> EmptyDict,
               returned |-> <<>>]

\* time.time() moves on.
Tick ==
    /\ call.ticks < MaxTicks
    /\ call' = [call EXCEPT !.clock = @ + TickSeconds, !.ticks = @ + 1]
    /\ UNCHANGED <<progvars, cb, git>>

\* _is_duplicate_event(event_id) is entered by caller t: "now = time.time()"
\* is read before the lock is requested.
ReadClock(t) ==
    /\ call.pc[t] = "idle"
    /\ \E e \in EventIds :
          call' = [call EXCEPT !.pc[t] = "lock",
                                !.event_id[t] = e,
                                !.now[t] = call.clock]
    /\ UNCHANGED <<progvars, cb, git>>

\* "expired = [k for k, t in _seen_events.items() if now - t > _EVENT_TTL]"
\* and the deletions.
Pruned(seen, now) ==
    LET kept == {k \in DOMAIN seen : ~(now - seen[k] > _EVENT_TTL)}
    IN [k \in kept |-> seen[k]]

\* The block under "with _seen_lock:" and the return, for caller t: no
\* other caller is inside the block meanwhile.
WithSeenLock(t) ==
    /\ call.pc[t] = "lock"
    /\ LET e == call.event_id[t]
           seen == Pruned(call._seen_events, call.now[t])
           duplicate == e \in DOMAIN seen
       IN call' = [call EXCEPT
                     !.pc[t] = "done",
                     !._seen_events = IF duplicate THEN seen ELSE Put(seen, e, call.now[t]),
                     !.returned = Append(@, [event_id |-> e, now |-> call.now[t],
                                            at |-> call.clock, duplicate |-> duplicate])]
    /\ UNCHANGED <<progvars, cb, git>>

DedupNext ==
    \/ Tick
    \/ \E t \in Callers : ReadClock(t)
    \/ \E t \in Callers : WithSeenLock(t)

DedupSpec == DedupInit /\ [][DedupNext]_vars

\* ------------------------------------------------- the prompt of a heal
\* Texts are modelled by their lengths in characters.
MaxFiles == 3

_MAX_TEST_OUTPUT == 8000

_MAX_PROMPT == 100000

\* len("... [TRUNCATED ... showing last 8000 chars] ...\n")
TruncatedNote == 46

\* len of the header, the content's newline and a relative path of 9
\* characters in one part of _build_files_block.
PartChars == 9 + 9 + 4 + 1

\* len("(no source files found)"), len("(no test files found)")
NoSourcesChars == 23
NoTestsChars == 21

\* len of the "... (n more ... file(s) omitted to fit context) ..." lines for
\* a count n of one digit.
SourcesOmittedChars == 55
TestsOmittedChars == 53

\* Lengths of the files of a repository and of a pytest output.
FileChars == {1000, 30000, 60000}
FileLists == UNION {[1..n -> FileChars] : n \in 0..MaxFiles}
OutputChars == {0, 8000, 20000}

\* "test_output[-_MAX_TEST_OUTPUT:]" behind the note when it is too long.
truncate_output(n) == IF n > _MAX_TEST_OUTPUT THEN TruncatedNote + _MAX_TEST_OUTPUT ELSE n

RECURSIVE PartsChars(_)
PartsChars(files) ==
    IF files = <<>> THEN 0 ELSE PartChars + Head(files) + PartsChars(Tail(files))

\* len(_build_files_block(files)): the parts joined by "\n".
_build_files_block(files) ==
    IF files = <<>> THEN 0 ELSE PartsChars(files) + (Len(files) - 1)

\* A block of the prompt: the files it embeds, how many it announces as
\* omitted (0: no annotation) and its length.
FilesBlock(files, empty) ==
    [files |-> files, omitted |-> 0,
     chars |-> IF files = <<>> THEN empty ELSE _build_files_block(files)]

\* "dict(list(sources.items())[:2])" plus the annotation.
Trimmed(files, note) ==
    [files |-> SubSeq(files, 1, 2), omitted |-> Len(files) - 2,
     chars |-> _build_files_block(SubSeq(files, 1, 2)) + note]

\* The three texts _heal puts into _HEAL_PROMPT.
heal_prompt(output, sources, test_sources) ==
    LET test_output == truncate_output(output)
        all_files_block == FilesBlock(sources, NoSourcesChars)
        test_files_block == FilesBlock(test_sources, NoTestsChars)
        total == test_output + all_files_block.chars + test_files_block.chars
    IN [test_output |-> test_output,
        total |-> total,
        all_files_block |->
            IF total > _MAX_PROMPT /\ Len(sources) > 2
            THEN Trimmed(sources, SourcesOmittedChars) ELSE all_files_block,
        test_files_block |->
            IF total > _MAX_PROMPT /\ Len(test_sources) > 2
            THEN Trimmed(test_sources, TestsOmittedChars) ELSE test_files_block]

\* _heal(client, test_output, base_dir) is called on a repository.
HealPromptInit ==
    /\ InitPipeline
    /\ targets = _ALL_CLIENTS
    /\ cb = NoCallback
    /\ call \in [pc : {"heal"}, output : OutputChars, sources : FileLists,
                 test_sources : FileLists, prompt : {EmptyDict}]

\* _heal up to "prompt = _HEAL_PROMPT.format(...)".
BuildPrompt ==
    /\ call.pc = "heal"
    /\ call' = [call EXCEPT !.pc = "prompt",
                            !.prompt = heal_prompt(call.output, call.sources,
                                                   call.test_sources)]
    /\ UNCHANGED <<progvars, cb, git>>

HealPromptSpec == HealPromptInit /\ [][BuildPrompt]_vars

\* ------------------------------------------------- where a file is written
\* A path is a list of segments, from the filesystem root when absolute.
MaxSegs == 3

Segments == {"..", "pkg", "a.py"}

\* The relative paths a response may declare: "(.+?)" in the marker accepts
\* any text, so parent segments and a leading "/" as well.
DeclaredPaths ==
    [absolute : BOOLEAN, segs : UNION {[1..n -> Segments] : n \in 1..MaxSegs}]

\* The working directory of the process.
Cwd == <<"work">>

\* get_repo_root without the environment override: Path(cfg["fallback"]).
get_repo_root(c) == <<"integrations", c>>

\* "repo_root / rel_path": an absolute right operand replaces the left one.
JoinPath(root, rel) == IF rel.absolute THEN rel.segs ELSE Cwd \o root \o rel.segs

\* The file the system opens for a path: ".." leaves the directory reached
\* so far (the root's parent is the root).
RECURSIVE Resolve(_, _)
Resolve(at, rest) ==
    IF rest = <<>> THEN at
    ELSE IF Head(rest) = ".."
    THEN Resolve(IF at = <<>> THEN <<>> ELSE SubSeq(at, 1, Len(at) - 1), Tail(rest))
    ELSE Resolve(Append(at, Head(rest)), Tail(rest))

\* The write loops of _transform_one and _heal for one entry of the parsed
\* mapping: the location written, or <<>> when _validate_python rejects.
write_file(c, rel, code) ==
    IF _validate_python(code) THEN Resolve(<<>>, JoinPath(get_repo_root(c), rel)) ELSE <<>>

\* One entry (rel_path, code) of a parsed response of client c is at hand in
\* Stage 2 or in a heal of Stage 3.
WriteInit ==
    /\ InitPipeline
    /\ targets = _ALL_CLIENTS
    /\ cb = NoCallback
    /\ call \in [pc : {"entry"}, stage : {"transform", "heal"}, client : _CLIENT_CONFIG,
                 rel_path : DeclaredPaths, code : {"new", "bad"}, written : {<<>>}]

WriteFile ==
    /\ call.pc = "entry"
    /\ call' = [call EXCEPT !.pc = "next",
                            !.written = write_file(call.client, call.rel_path, call.code)]
    /\ UNCHANGED <<progvars, cb, git>>

WriteSpec == WriteInit /\ [][WriteFile]_vars

\* ----------------------------------------------------------------- claims
Failing == {c \in DOMAIN tests : ~tests[c].passed}

Stage4Entered == pc = "stage4" \/ pub # NoPub \/ ops.pr > 0

\* C1: Stage 4 (create_prs and every git, gh or PR-drafting operation) is
\* entered only if every record of tests has passed = true; when some record
\* has passed = false the returned report's prs is empty and no Stage 4
\* operation has been performed.
C1_Stage4OnlyIfAllPassed ==
    /\ Stage4Entered => \A c \in DOMAIN tests : tests[c].passed
    /\ (pc = "returned" /\ Failing # {}) => (prs = EmptyDict /\ ~Stage4Entered)

C1_Witness ==
    /\ pc = "returned"
    /\ Failing # {}
    /\ \E c \in DOMAIN tests : tests[c].passed
    /\ prs = EmptyDict

\* C2: in every returned report, on every return path, success is true if
\* and only if errors is empty.
C2_SuccessIffNoErrors == pc = "returned" => (success <=> errors = <<>>)

C2_Witness == pc = "returned" /\ prs # EmptyDict /\ errors # <<>> /\ ~success

\* C3: the stages run strictly in the order 1, 2, 3, 4: the Stage 1 oracle
\* call has finished before any Stage 2 task exists, every Stage 2 task
\* (with all its file writes) has finished before the first Stage 3 test run,
\* and every Stage 3 loop has its terminal record before any Stage 4
\* operation.
C3_StagesInOrder ==
    /\ pool # NoPool => (ops.analyze = 1 /\ pc # "stage1")
    /\ (pc \in {"stage3", "stage4"} \/ loop # NoLoop \/ ops.test > 0 \/ tests # EmptyDict)
          => /\ pool.state = "closed"
             /\ \A i \in 1..Len(pool.task) :
                   pool.task[i].pc = "done" /\ pool.task[i].pending = <<>>
    /\ Stage4Entered
          => /\ loop = NoLoop
             /\ DOMAIN tests = Range(ScopeOrAll(targets))

C3_Witness ==
    /\ pc = "stage4"
    /\ ops.pr > 0
    /\ Len(pool.task) >= 2
    /\ \E c \in DOMAIN tests : tests[c].rounds_used > 1

\* C4: if Stage 1 raises, the oracle has been called exactly once, no Stage
\* 2, 3 or 4 operation is performed and the report has analysis null,
\* transform, tests and prs empty, success = false and the exception text in
\* errors; if Stage 2 as a whole raises, Stages 3 and 4 are not run and the
\* report is unsuccessful.
Stage1Raised == \E i \in 1..Len(errors) : errors[i].kind = "stage1"

Stage2Raised == \E i \in 1..Len(errors) : errors[i].kind = "stage2"

C4_FatalStageAborts ==
    /\ Stage1Raised =>
          /\ ops.analyze = 1
          /\ ops.transform = 0 /\ ops.test = 0 /\ ops.pr = 0
          /\ pool = NoPool /\ loop = NoLoop /\ pub = NoPub
          /\ pc = "returned"
          /\ analysis = "null"
          /\ transform = <<>> /\ tests = EmptyDict /\ prs = EmptyDict
          /\ ~success
          /\ Len(errors) = 1
          /\ errors[1].text \in {"cli_error", "bad_json"}
    /\ Stage2Raised =>
          /\ ops.test = 0 /\ ops.pr = 0
          /\ loop = NoLoop /\ pub = NoPub
          /\ pc = "returned"
          /\ tests = EmptyDict /\ prs = EmptyDict
          /\ ~success

C4_Witness == pc = "returned" /\ Stage1Raised /\ errors[1].text = "bad_json"

C4_WitnessStage2 == pc = "returned" /\ Stage2Raised

\* C5: when Stage 3 ends with a failing record, exactly one entry is appended
\* to errors for that, it names exactly the targets whose record has
\* passed = false, and the report is returned with success = false.
SkipEntries == {i \in 1..Len(errors) : errors[i].kind = "prs_skipped"}

C5_OneErrorNamingFailing ==
    /\ (pc = "returned" /\ Failing # {}) =>
          /\ Cardinality(SkipEntries) = 1
          /\ \A i \in SkipEntries : errors[i].about = Failing
          /\ ~success
    /\ Failing = {} => SkipEntries = {}

C5_Witness ==
    /\ pc = "returned"
    /\ \E c \in DOMAIN tests : tests[c].passed /\ tests[c].rounds_used = 1
    /\ \E c \in DOMAIN tests : ~tests[c].passed /\ tests[c].rounds_used = MAX_HEAL_ROUNDS + 1
    /\ Cardinality(SkipEntries) = 1

\* C6: a target's test+heal loop performs at most MAX_HEAL_ROUNDS + 1 test
\* runs and at most MAX_HEAL_ROUNDS heal calls, and, every test run and
\* oracle call returning or raising, it reaches a terminal record.
LoopBounded(h) == Len(h.outs) <= MAX_HEAL_ROUNDS + 1 /\ h.heals <= MAX_HEAL_ROUNDS

C6_LoopBounds ==
    /\ LoopBounded(loop)
    /\ \A c \in DOMAIN hist : LoopBounded(hist[c])

\* A loop of _test_and_heal_one is running / the loop that ran last is over
\* and run_and_heal_all holds its record.
LoopRunning == loop.pc \in {"run", "heal", "apply"}

LoopOver ==
    /\ loop.pc = "begin"
    /\ loop.idx >= 2
    /\ ScopeOrAll(targets)[loop.idx - 1] \in DOMAIN tests
    /\ tests[ScopeOrAll(targets)[loop.idx - 1]].summary = "pytest"

C6_BoundedAndTerminates ==
    /\ []C6_LoopBounds
    /\ LoopRunning ~> LoopOver

C6_Witness ==
    \E c \in DOMAIN hist :
       /\ Len(hist[c].outs) = MAX_HEAL_ROUNDS + 1
       /\ hist[c].heals = MAX_HEAL_ROUNDS
       /\ c \in DOMAIN tests

\* C7: with a resolvable test path and no heal call raising: if the runner
\* first succeeds on its k-th run the record has passed = true and
\* rounds_used = k; if it never succeeds the record has passed = false and
\* rounds_used = MAX_HEAL_ROUNDS + 1; rounds_used is the number of test runs.
FirstPass(outs) == CHOOSE k \in 1..Len(outs) : outs[k] /\ \A j \in 1..(k - 1) : ~outs[j]

C7_RoundsUsed ==
    \A c \in DOMAIN tests :
       (hist[c].outs # <<>> /\ hist[c].raisedAt = 0) =>
          /\ tests[c].rounds_used = Len(hist[c].outs)
          /\ IF \E k \in 1..Len(hist[c].outs) : hist[c].outs[k]
             THEN tests[c].passed /\ tests[c].rounds_used = FirstPass(hist[c].outs)
             ELSE ~tests[c].passed /\ tests[c].rounds_used = MAX_HEAL_ROUNDS + 1

C7_Witness ==
    \E c \in DOMAIN tests :
       /\ hist[c].outs = <<FALSE, FALSE, TRUE>>
       /\ tests[c].passed
       /\ tests[c].rounds_used = 3

\* C8: if a heal call raises in the r-th round of a target's loop, no further
\* test run and no further heal call is made for the target and the record
\* has passed = false and rounds_used = r.
C8_HealRaiseStops ==
    /\ loop.raisedAt = 0
    /\ \A c \in DOMAIN tests :
          hist[c].raisedAt > 0 =>
             /\ Len(hist[c].outs) = hist[c].raisedAt
             /\ hist[c].heals = hist[c].raisedAt
             /\ ~tests[c].passed
             /\ tests[c].rounds_used = hist[c].raisedAt

C8_Witness ==
    \E c \in DOMAIN tests :
       hist[c].raisedAt = 2 /\ tests[c].rounds_used = 2 /\ ~tests[c].passed

\* C9: in Stage 2 (source and test-update cycle) and in every Stage 3 heal a
\* file is written only if its sanitized content passed the syntax
\* validation; a block that fails it leaves the disk as it was.
RejectedHead(pending) == pending # <<>> /\ ~_validate_python(Head(pending).code)

C9_OnlyValidatedWritten ==
    [][ /\ \A c \in _CLIENT_CONFIG : \A p \in Paths :
              disk'[c][p] # disk[c][p] => _validate_python(disk'[c][p])
        /\ \A i \in 1..Len(pool.task) :
              (RejectedHead(pool.task[i].pending)
                  /\ pool'.task[i].pending = Tail(pool.task[i].pending)) => disk' = disk
        /\ RejectedHead(loop.pending) => disk' = disk ]_vars

C9_Witness ==
    \E i \in 1..Len(pool.task) :
       /\ pool.task[i].pc = "write"
       /\ pool.task[i].pending = <<>>
       /\ pool.task[i].client = "langchain"
       /\ ops.malformed = 1
       /\ disk["langchain"][SrcA] = "orig"
       /\ disk["langchain"][TestT] = "new"

C9_WitnessHeal ==
    /\ loop.pc = "apply"
    /\ loop.pending = <<Block(TestT, "new")>>
    /\ disk[ScopeOrAll(targets)[loop.idx]][SrcA] = "orig"

\* C10: in Stage 2 an oracle exception in one target's task yields a result
\* with success = false and an error string for that task only; every other
\* task still runs to completion and transform_all returns exactly one
\* result per task of its target list, whatever the order of completion.
Count(seq, c) == Cardinality({i \in 1..Len(seq) : seq[i].client = c})

AllSubmitted == \A i \in 1..Len(pool.task) : pool.task[i].pc # "unsubmitted"

OracleFailed(rs) == {i \in 1..Len(rs) : rs[i].error = "cli_error"}

Stage3Returned == pc \in {"stage4", "returned"} /\ ~Stage1Raised /\ ~Stage2Raised

LoopRan(c) ==
    /\ c \in DOMAIN tests
    /\ \/ tests[c].summary = "skipped" /\ ~_get_test_path(disk, c)
       \/ tests[c].summary = "pytest" /\ hist[c].outs # <<>>

C11_OneRecordPerTarget ==
    /\ Stage3Returned => DOMAIN tests = Range(ScopeOrAll(targets))
    /\ \A c \in DOMAIN tests :
          IF c \in _CLIENT_CONFIG
          THEN LoopRan(c)
          ELSE ~tests[c].passed /\ tests[c].rounds_used = 0 /\ tests[c].summary = "error"
    /\ \A i \in 1..Len(ScopeOrAll(targets)) :
          (pc = "stage3" /\ i < loop.idx) => ScopeOrAll(targets)[i] \in DOMAIN tests

C11_Witness ==
    /\ pc = "returned"
    /\ targets = <<UnknownId, "crewai">>
    /\ DOMAIN tests = {UnknownId, "crewai"}
    /\ ~tests[UnknownId].passed /\ tests[UnknownId].rounds_used = 0
    /\ tests["crewai"].passed /\ tests["crewai"].rounds_used = 2

\* C12: in every returned report the client of each transform result, each
\* key of tests and each key of prs is an element of the report's scope list.
C12_ReportIdsInScope ==
    pc = "returned" =>
       /\ \A i \in 1..Len(transform) : transform[i].client \in Range(targets)
       /\ DOMAIN tests \subseteq Range(targets)
       /\ DOMAIN prs \subseteq Range(targets)

\* C13: _parse_scope returns the same set of targets for "all", None and
\* every comma-separated enumeration of all known targets (any order, blanks
\* around the names, any letter case); every other string or list argument is
\* returned as its elements trimmed and lower-cased, empty elements removed.
IsWord(t) == t \in Words

\* The words of an argument, in the order written.
WordsOf(a) == SelectSeq(IF a.kind = "list" THEN Flat(a.items) ELSE a.text, IsWord)

LowerWordsOf(a) == [i \in 1..Len(WordsOf(a)) |-> LowerToken(WordsOf(a)[i])]

IsAll(a) == a.kind = "none" \/ (a.kind = "str" /\ a.text = <<"all">>)

IsEnumeration(a) == a.kind = "str" /\ Range(LowerWordsOf(a)) = Range(_ALL_CLIENTS)

C13_ParseScope ==
    pc # "parse" =>
       /\ (IsAll(scope_arg) \/ IsEnumeration(scope_arg))
             => Range(targets) = Range(_ALL_CLIENTS)
       /\ ~IsAll(scope_arg) => targets = LowerWordsOf(scope_arg)

C13_Witness ==
    /\ pc # "parse"
    /\ scope_arg = StrArg(<<Blank, "LLAMAINDEX", Blank, Comma, "crewai", Comma, "LANGCHAIN">>)
    /\ targets = <<"llamaindex", "crewai", "langchain">>

C13_WitnessOther ==
    /\ pc # "parse"
    /\ scope_arg = ListArg(<<<<Blank>>, <<"other">>, <<Blank, "ALL">>>>)
    /\ targets = <<"other", "all">>

\* C14: for a target whose test path cannot be resolved the Stage 3 loop
\* goes directly to the skipped record (passed = false, rounds_used = 0): no
\* test run, no oracle call, no write.
NoTestPath(c) == c \in _CLIENT_CONFIG /\ \A p \in TestPaths : disk[c][p] = "none"

LoopStarts(c) ==
    /\ pc = "stage3" /\ loop.pc = "begin"
    /\ loop.idx <= Len(ScopeOrAll(targets))
    /\ c = ScopeOrAll(targets)[loop.idx]

C14_SkippedWithoutRun ==
    [][ \A c \in _CLIENT_CONFIG :
           (LoopStarts(c) /\ NoTestPath(c)) =>
              /\ c \in DOMAIN tests'
              /\ tests'[c] = TestHealRecord(FALSE, 0, "skipped")
              /\ hist'[c].outs = <<>> /\ hist'[c].heals = 0
              /\ loop'.pc = "begin" /\ loop'.idx = loop.idx + 1
              /\ ops' = ops /\ disk' = disk ]_vars

C14_Witness ==
    /\ pc = "stage3"
    /\ loop.pc = "begin" /\ loop.idx = 3
    /\ ScopeOrAll(targets) = <<"llamaindex", "crewai">>
    /\ DOMAIN tests = {"llamaindex", "crewai"}
    /\ tests["llamaindex"] = TestHealRecord(FALSE, 0, "skipped")
    /\ hist["llamaindex"].outs = <<>>
    /\ tests["crewai"].rounds_used = 2

\* C15: a skipped target is no error: in a returned report where a target
\* was skipped for lack of tests and every transform result and every other
\* test record is a success, errors is empty and success is true.
Skipped == {c \in DOMAIN tests : tests[c].summary = "skipped"}

OthersSucceeded ==
    /\ \A i \in 1..Len(transform) : transform[i].success
    /\ \A c \in DOMAIN tests \ Skipped : tests[c].passed

C15_SkipIsNoError ==
    (pc = "returned" /\ Skipped # {} /\ OthersSucceeded) => (errors = <<>> /\ success)

\* C16 (as claimed): a target-local failure (a failed transform, a heal call
\* that raised) does not touch the siblings: in a returned report whose only
\* failing records are those of targets whose heal call raised, every target
\* with a passing record has been through Stage 4 and has its PR result.
HealRaised == {c \in DOMAIN tests : hist[c].raisedAt > 0}

Stage4Aborted == \E i \in 1..Len(errors) : errors[i].kind = "stage4"

C16_SiblingsReachStage4 ==
    (pc = "returned" /\ Stage3Returned /\ ~Stage4Aborted /\ Failing \subseteq HealRaised) =>
       \A c \in DOMAIN tests : tests[c].passed => (c \in DOMAIN prs /\ ~prs[c].skipped)

\* C16 (amended): a target-local failure is confined to the target's own
\* result or record within Stages 2 and 3: every target of the list still
\* gets its transform result and its test record.  A failed transform does
\* not keep the run from Stage 4 (entered when every record passed), but a
\* heal call that raised leaves a failing record and Stage 4 is then skipped
\* for every target.
TransformFailed == {transform[i].client : i \in {j \in 1..Len(transform) : ~transform[j].success}}

C16_LocalFailureConfined ==
    /\ Stage3Returned =>
          /\ Len(transform) = Len(ScopeOrAll(targets))
          /\ DOMAIN tests = Range(ScopeOrAll(targets))
          /\ \A c \in DOMAIN tests \cap _CLIENT_CONFIG : LoopRan(c)
    /\ (Stage3Returned /\ Failing = {}) => Stage4Entered
    /\ (pc = "returned" /\ HealRaised # {}) => (~Stage4Entered /\ prs = EmptyDict)

C16_Witness ==
    /\ pc = "returned"
    /\ ScopeOrAll(targets) = <<"crewai", "langchain">>
    /\ TransformFailed = {"langchain"}
    /\ DOMAIN prs = {"crewai", "langchain"}
    /\ prs["crewai"].url = "url"

C16_WitnessHeal ==
    /\ pc = "returned"
    /\ ScopeOrAll(targets) = <<"crewai", "langchain">>
    /\ DOMAIN tests = {"crewai", "langchain"}
    /\ tests["crewai"].passed
    /\ HealRaised = {"langchain"}
    /\ prs = EmptyDict

\* C17: in create_prs a target whose test record is missing or has
\* passed = false gets the skipped record (skipped, "Tests failed", no url),
\* no branch, commit, push, oracle or PR-open operation is invoked for it,
\* and the targets after it are processed.
NotPassed(c) == c \notin DOMAIN tests \/ ~tests[c].passed

CallsFor(c) == {i \in 1..Len(pub.calls) : pub.calls[i].client = c}

\* The targets create_prs has dealt with so far.
Processed == {ScopeOrAll(targets)[i] : i \in 1..(pub.idx - 1)}

C17_NotPassedIsSkipped ==
    /\ Processed \subseteq DOMAIN pub.results
    /\ \A c \in Ids :
          NotPassed(c) =>
             /\ CallsFor(c) = {}
             /\ c \in Processed =>
                   pub.results[c] = PullRequestResult(TRUE, "none", "Tests failed")
    /\ (pc = "returned" /\ ~Stage4Aborted) =>
          (prs = pub.results /\ DOMAIN prs = Range(ScopeOrAll(targets)))

C17_Witness ==
    /\ pc = "returned"
    /\ ScopeOrAll(targets) = <<"llamaindex", "crewai">>
    /\ DOMAIN tests = {"crewai"}
    /\ DOMAIN prs = {"llamaindex", "crewai"}
    /\ prs["llamaindex"].skipped
    /\ prs["crewai"].url = "url"

\* C18: when commit-and-push fails for a target, its result carries the
\* push-failure error and no url, neither the PR draft nor the PR-open
\* operation is invoked for it, and create_prs is at the next target.
PushFailsFor(c) ==
    /\ Len(pub'.calls) > Len(pub.calls)
    /\ pub'.calls[Len(pub'.calls)] = Call(c, "push", FALSE)

DraftOrOpen(p, c) ==
    {i \in 1..Len(p.calls) : p.calls[i].client = c /\ p.calls[i].op \in {"draft", "open"}}

C18_PushFailureStopsTarget ==
    [][ \A c \in Ids :
           PushFailsFor(c) =>
              /\ c \in DOMAIN pub'.results
              /\ pub'.results[c] = PullRequestResult(FALSE, "none", "git push failed")
              /\ DraftOrOpen(pub', c) = DraftOrOpen(pub, c)
              /\ pub'.pc = "begin" /\ pub'.idx = pub.idx + 1
              /\ pc' = "stage4" ]_vars

C18_Witness ==
    /\ pc = "returned"
    /\ ScopeOrAll(targets) = <<"crewai", "langchain">>
    /\ DOMAIN prs = {"crewai", "langchain"}
    /\ prs["crewai"] = PullRequestResult(FALSE, "none", "git push failed")
    /\ DraftOrOpen(pub, "crewai") = {}
    /\ prs["langchain"].url = "url"

\* C19: whatever the PR-drafting oracle call does (raises, returns text that
\* is no JSON, returns JSON without title and body), Stage 4 is not aborted:
\* the PR-open operation is still attempted for the target and the returned
\* report has a PR result for every target of the list.
CallsOf(c, op) == {i \in 1..Len(pub.calls) : pub.calls[i].client = c /\ pub.calls[i].op = op}

C19_DraftNeverAborts ==
    pc = "returned" =>
       /\ ~Stage4Aborted
       /\ \A c \in Ids :
             CallsOf(c, "draft") # {} => (CallsOf(c, "open") # {} /\ c \in DOMAIN prs)
       /\ Stage4Entered => DOMAIN prs = Range(ScopeOrAll(targets))

\* C20: a failing PR-open subprocess for a target is captured as the error
\* of the target's result (no url); create_prs does not raise and is at the
\* next target.
OpenFailsFor(c) ==
    /\ Len(pub'.calls) > Len(pub.calls)
    /\ pub'.calls[Len(pub'.calls)] = Call(c, "open", FALSE)

C20_OpenFailureCaptured ==
    [][ \A c \in Ids :
           OpenFailsFor(c) =>
              /\ c \in DOMAIN pub'.results
              /\ pub'.results[c] = PullRequestResult(FALSE, "none", "gh pr create failed")
              /\ pub'.pc = "begin" /\ pub'.idx = pub.idx + 1
              /\ pc' = "stage4" /\ errors' = errors ]_vars

C20_Witness ==
    /\ pc = "returned"
    /\ ScopeOrAll(targets) = <<"crewai", "langchain">>
    /\ DOMAIN prs = {"crewai", "langchain"}
    /\ prs["crewai"] = PullRequestResult(FALSE, "none", "gh pr create failed")
    /\ CallsOf("crewai", "open") # {}
    /\ prs["langchain"].url = "url"
    /\ success

\* C21: when every target passed Stage 3 and create_prs returned, prs holds
\* one entry per target: the url for a target whose PR was opened, the
\* push-failure error (no url, not skipped) for a target whose push failed;
\* the push failure adds nothing to errors (errors holds the failed
\* transforms only) and success is true exactly when errors is empty.
LastCall(c, op) ==
    pub.calls[CHOOSE i \in CallsOf(c, op) : \A j \in CallsOf(c, op) : j <= i]

PushFailed == {c \in Ids : CallsOf(c, "push") # {} /\ ~LastCall(c, "push").ok}

Opened == {c \in Ids : CallsOf(c, "open") # {} /\ LastCall(c, "open").ok}

C21_PushFailureIsNoError ==
    (pc = "returned" /\ Stage4Entered /\ ~Stage4Aborted) =>
       /\ DOMAIN prs = Range(ScopeOrAll(targets))
       /\ \A c \in PushFailed :
             /\ prs[c].error = "git push failed"
             /\ prs[c].url = "none" /\ ~prs[c].skipped
       /\ \A c \in Opened \ PushFailed : prs[c].url = "url" /\ prs[c].error = ""
       /\ errors = TransformErrors(transform)
       /\ success <=> errors = <<>>

C21_Witness ==
    /\ pc = "returned"
    /\ ScopeOrAll(targets) = all_clients
    /\ DOMAIN tests = Range(all_clients)
    /\ \A c \in DOMAIN tests : tests[c].passed
    /\ PushFailed = {"langchain"}
    /\ Opened = {"crewai", "llamaindex"}
    /\ DOMAIN prs = Range(all_clients)
    /\ errors = <<>> /\ success

\* C22: with a callback supplied, raising in any of its invocations or in
\* none, run_pipeline does not raise and every step it takes is the step it
\* takes with no callback, on the same state with the same outcome of the
\* oracle, the test runner, git and gh: the position, the files and the
\* report are the ones of the run without callback.
C22_CallbackHasNoInfluence == [][Pipeline]_progvars

C22_Witness ==
    /\ pc = "returned"
    /\ cb.supplied /\ cb.raised
    /\ DOMAIN prs = {"crewai", "langchain"}
    /\ prs["crewai"].url = "url"
    /\ tests["langchain"].rounds_used = 3
    /\ success

\* C23: no two Stage 2 tasks that run concurrently write the same file: two
\* tasks of the pool never both have, as their next write, a block accepted
\* by the validation for the same path of the same repository.
NextWrite(i) ==
    IF pool.task[i].pc \in {"write", "write_tests"} /\ pool.task[i].pending # <<>>
          /\ _validate_python(Head(pool.task[i].pending).code)
    THEN {<<pool.task[i].client, Head(pool.task[i].pending).path>>}
    ELSE {}

C23_DisjointWriters ==
    \A i, j \in 1..Len(pool.task) : i # j => NextWrite(i) \cap NextWrite(j) = {}

\* C24: EndeeVectorStore.similarity_search called with filter = None calls
\* index.query without any filter keyword; called with another filter it
\* passes that filter, unchanged, under the keyword filter.
C24_FilterForwarding ==
    call.pc = "returned" =>
       /\ Len(call.query) = 1
       /\ IF call.args.filter = None
          THEN "filter" \notin DOMAIN call.query[1]
          ELSE /\ "filter" \in DOMAIN call.query[1]
               /\ call.query[1]["filter"] = call.args.filter

\* C25: in a target's loop test runs and heal calls alternate, starting with
\* a test run: a heal call is made only right after a failing test run of the
\* same round, a heal call that returned is followed by a test run before the
\* loop ends, and after the (MAX_HEAL_ROUNDS + 1)-th failing test run no heal
\* call is made: the loop ends with a failing record.
\* The test runs before the last one failed; the heal calls are as many as
\* the test runs, or one fewer.
Alternates(h) ==
    /\ h.heals \in {Len(h.outs), Len(h.outs) - 1}
    /\ \A k \in 1..(Len(h.outs) - 1) : ~h.outs[k]
    /\ h.heals = Len(h.outs) => \A k \in 1..Len(h.outs) : ~h.outs[k]
    /\ h.heals <= MAX_HEAL_ROUNDS

C25_RunsAndHealsAlternate ==
    /\ loop.pc \in {"run", "heal", "apply"} => Alternates(loop)
    /\ loop.pc = "run" => loop.heals = Len(loop.outs) /\ loop.round_num = loop.heals
    /\ loop.pc = "heal" =>
          /\ Len(loop.outs) = loop.heals + 1
          /\ ~loop.outs[Len(loop.outs)]
          /\ loop.round_num = loop.heals
    /\ loop.pc = "apply" => loop.heals = Len(loop.outs) /\ loop.round_num + 1 = loop.heals
    /\ \A c \in DOMAIN hist :
          /\ hist[c].outs # <<>> => Alternates(hist[c])
          /\ (hist[c].outs # <<>> /\ hist[c].raisedAt = 0) =>
                 Len(hist[c].outs) = hist[c].heals + 1
          /\ (Len(hist[c].outs) = MAX_HEAL_ROUNDS + 1 /\ ~hist[c].outs[MAX_HEAL_ROUNDS + 1]) =>
                 /\ hist[c].heals = MAX_HEAL_ROUNDS
                 /\ c \in DOMAIN tests /\ ~tests[c].passed

C25_Witness ==
    \E c \in DOMAIN hist :
       /\ hist[c].outs = <<FALSE, FALSE, FALSE, FALSE>>
       /\ hist[c].heals = MAX_HEAL_ROUNDS
       /\ hist[c].raisedAt = 0
       /\ c \in DOMAIN tests
       /\ tests[c] = TestHealRecord(FALSE, MAX_HEAL_ROUNDS + 1, "pytest")

\* C26: a target's record has passed = true exactly when test runs were
\* made for it and the last of them exited with success; a passing test run
\* is the last event of the loop: no test run and no heal call follows it.
LastPassed(h) == h.outs # <<>> /\ h.outs[Len(h.outs)]

C26_PassedIsTerminal ==
    /\ \A c \in DOMAIN tests : tests[c].passed <=> LastPassed(hist[c])
    /\ loop.pc \in {"run", "heal", "apply"} =>
          \A k \in 1..Len(loop.outs) : ~loop.outs[k]
    /\ \A c \in DOMAIN hist :
          /\ \A k \in 1..(Len(hist[c].outs) - 1) : ~hist[c].outs[k]
          /\ LastPassed(hist[c]) =>
                 /\ hist[c].heals = Len(hist[c].outs) - 1
                 /\ tests[c].rounds_used = Len(hist[c].outs)

C26_Witness ==
    /\ pc = "stage3"
    /\ loop.pc = "run"
    /\ ScopeOrAll(targets) = <<"crewai", "langchain">>
    /\ loop.idx = 2
    /\ DOMAIN tests = {"crewai"}
    /\ hist["crewai"].outs = <<FALSE, TRUE>>
    /\ hist["crewai"].heals = 1
    /\ tests["crewai"].passed

\* C27: when a target's loop ended because a heal call raised, the record
\* has passed = false and its summary holds the error of the heal call.
HealErrors == {"cli_error"}

C27_HealErrorInSummary ==
    \A c \in DOMAIN tests :
       hist[c].raisedAt > 0 => (~tests[c].passed /\ tests[c].summary \in HealErrors)

\* C28: with a callback supplied, for a target whose test path resolves the
\* callback is invoked before the first run, once after every test run (the
\* pass message, the healing message of the round, or the final failure
\* message), and once more when a heal call raised; so it is invoked after
\* the initial run and after each heal attempt, exactly one final pass or
\* fail message is sent per loop, and it is the last message of the loop.
RECURSIVE RoundNotes(_, _)
RoundNotes(h, k) ==
    IF k > Len(h.outs) THEN <<>>
    ELSE (IF h.outs[k] THEN <<"passed">>
          ELSE IF k <= MAX_HEAL_ROUNDS
          THEN <<"healing">> \o (IF h.raisedAt = k THEN <<"heal failed">> ELSE <<>>)
          ELSE <<>>)
         \o RoundNotes(h, k + 1)

ExpectedNotes(h) ==
    <<"running">> \o RoundNotes(h, 1) \o (IF LastPassed(h) THEN <<>> ELSE <<"failed">>)

FinalNotes(n) == {i \in 1..Len(n) : n[i] \in {"passed", "failed"}}

C28_ProgressNotifications ==
    cb.supplied =>
       /\ loop.pc \in {"run", "heal", "apply"} => FinalNotes(loop.notes) = {}
       /\ \A c \in DOMAIN tests :
             tests[c].summary = "pytest" =>
                LET n == hist[c].notes
                IN /\ n = ExpectedNotes(hist[c])
                   /\ Len(n) >= 2 /\ n[1] = "running" /\ n[2] \in {"passed", "healing"}
                   /\ Cardinality({i \in 1..Len(n) : n[i] = "healing"}) = hist[c].heals
                   /\ FinalNotes(n) = {Len(n)}
                   /\ n[Len(n)] = IF tests[c].passed THEN "passed" ELSE "failed"

C28_Witness ==
    /\ cb.supplied
    /\ \E c \in DOMAIN tests :
          /\ tests[c].passed
          /\ hist[c].notes = <<"running", "healing", "healing", "passed">>

C28_WitnessRaise ==
    /\ cb.supplied /\ cb.raised
    /\ \E c \in DOMAIN tests :
          /\ hist[c].raisedAt = 2
          /\ hist[c].notes = <<"running", "healing", "healing", "heal failed", "failed">>

\* C29: the Stage 3 parser returns the files of the primary markers when
\* there are some, whatever the fenced blocks and the other headers of the
\* text would give; otherwise the files of the fenced blocks when there are
\* some; otherwise those of the alternative headers; the result is empty
\* only when the three strategies find no file.
ByEq == _try_parse_eq_markers(Unfence(strip_lines(call.raw)))

ByFence == _try_parse_fenced_blocks(strip_lines(call.raw))

ByAlt == _try_parse_alt_separators(Unfence(strip_lines(call.raw)))

C29_FirstStrategyWins ==
    call.pc = "parsed" =>
       /\ ByEq # EmptyDict => call.heal = ByEq
       /\ (ByEq = EmptyDict /\ ByFence # EmptyDict) => call.heal = ByFence
       /\ (ByEq = EmptyDict /\ ByFence = EmptyDict) => call.heal = ByAlt
       /\ call.heal = EmptyDict <=>
             (ByEq = EmptyDict /\ ByFence = EmptyDict /\ ByAlt = EmptyDict)

C29_Witness ==
    /\ call.pc = "parsed"
    /\ DOMAIN ByEq = {SrcB}
    /\ DOMAIN ByFence = {SrcA}
    /\ DOMAIN ByAlt = {SrcA}
    /\ DOMAIN call.heal = {SrcB}
    /\ call.heal[SrcB] = <<Line("code", "def b")>>

C29_WitnessFenced ==
    /\ call.pc = "parsed"
    /\ ByEq = EmptyDict
    /\ DOMAIN ByFence = {SrcA, TestT}
    /\ DOMAIN ByAlt = {SrcA, SrcB, TestT}
    /\ call.heal = ByFence

C29_WitnessAlt ==
    /\ call.pc = "parsed"
    /\ ByEq = EmptyDict /\ ByFence = EmptyDict
    /\ DOMAIN call.heal = {SrcA}
    /\ call.heal[SrcA] = <<Line("code", "def a3"), Line("hash", SrcB), Line("code", "def b2")>>

\* C30: for every response text the Stage 2 parser returns the same mapping
\* of paths to contents as the Stage 3 parser; a response whose files are
\* labelled only by fenced blocks or only by alternative headers yields
\* those files in Stage 2 as well.
C30_SameParser ==
    call.pc = "parsed" => call.transform = call.heal

\* C31: when the parse of the source cycle's response yields no file, the
\* whole response becomes the candidate content of the only source file if
\* exactly one source file was read; with no source file or with two or more
\* the task returns success = false with an error, writes nothing and makes
\* no further oracle call (a returned task takes no further step).
ParseFailure == TransformResult("", FALSE, "parse")

C31_ParseFailure ==
    [][\A i \in 1..Len(pool.task) :
          /\ pool.task[i].pc = "done" => pool'.task[i] = pool.task[i]
          /\ \A r \in Responses :
                (/\ pool.task[i].pc = "start"
                 /\ pool.task[i].client \in _CLIENT_CONFIG
                 /\ ParseTransform(r) = <<>>
                 /\ SourceAnswer(i, r)) =>
                   LET c == pool.task[i].client
                       sources == read_all_sources(disk, c)
                   IN IF Cardinality(sources) = 1
                      THEN /\ pool'.task[i].pc = "write"
                           /\ \E only \in sources :
                                 pool'.task[i].pending = <<Block(only, r.whole)>>
                           /\ pool'.results = pool.results
                      ELSE /\ pool'.task[i].pc = "done"
                           /\ pool'.task[i].pending = <<>>
                           /\ pool'.results =
                                 Append(pool.results, [ParseFailure EXCEPT !.client = c])
                           /\ disk' = disk
                           /\ ops'.faults = ops.faults]_vars

\* A task of a repository with no source file has returned the parse failure.
C31_Witness ==
    \E i \in 1..Len(pool.task) :
       /\ pool.task[i].pc = "done"
       /\ \E c \in _CLIENT_CONFIG :
             /\ pool.task[i].client = c
             /\ disk[c] \in {RepoScratch, RepoTestsOnly}
             /\ \E k \in 1..Len(pool.results) :
                   pool.results[k] = [ParseFailure EXCEPT !.client = c]

\* The same with two source files.
C31_WitnessMulti ==
    /\ disk["langchain"] = RepoMulti
    /\ \E k \in 1..Len(pool.results) :
          pool.results[k] = [ParseFailure EXCEPT !.client = "langchain"]

\* The fallback is taken: an unlabelled response is pending for the only file.
C31_WitnessFallback ==
    /\ Len(pool.task) = 1
    /\ pool.task[1].client = "crewai"
    /\ disk["crewai"] = RepoSingle
    /\ ops.malformed = 1
    /\ pool.task[1].pc = "write"
    /\ pool.task[1].pending = <<Block(SrcA, "new")>>

\* C32: a write of the second (test-update) cycle of a Stage 2 task changes
\* test files of the target only: every path that is not a test path keeps
\* its content.
C32_TestCycleWritesTests ==
    [][\A i \in 1..Len(pool.task) :
          (/\ pool.task[i].pc = "write_tests"
           /\ pool.task[i].pending # <<>>
           /\ pool'.task[i].pending = Tail(pool.task[i].pending)) =>
              \A p \in Paths \ TestPaths :
                 disk'[pool.task[i].client][p] = disk[pool.task[i].client][p]]_vars

\* C33: when the output, the source block and the test block together
\* exceed _MAX_PROMPT characters, each side with more than 2 files holds
\* its first 2 files and announces the others as omitted, each side with at
\* most 2 files is embedded in full, and the three texts together are then
\* at most _MAX_PROMPT characters; when they do not exceed it both sides
\* are embedded in full.
Side(block, files) ==
    IF call.prompt.total > _MAX_PROMPT /\ Len(files) > 2
    THEN block.files = SubSeq(files, 1, 2) /\ block.omitted = Len(files) - 2
    ELSE block.files = files /\ block.omitted = 0

PromptChars ==
    call.prompt.test_output + call.prompt.all_files_block.chars
        + call.prompt.test_files_block.chars

C33_PromptTrimmed ==
    call.pc = "prompt" =>
       /\ Side(call.prompt.all_files_block, call.sources)
       /\ Side(call.prompt.test_files_block, call.test_sources)
       /\ PromptChars <= _MAX_PROMPT

\* C34: for each target, _open_pr_with_gh is invoked only after
\* create_branch succeeded in the target's repository and after a git push
\* of the commit to the branch succeeded there.
C34_OpenAfterBranchAndPush ==
    \A k \in 1..Len(pub.calls) :
       pub.calls[k].op = "open" =>
          \E i, j \in 1..(k - 1) :
             /\ i < j
             /\ pub.calls[i] = Call(pub.calls[k].client, "branch", TRUE)
             /\ pub.calls[j] = Call(pub.calls[k].client, "push", TRUE)

\* C35: a target whose Stage 2 result has success = false has the files it
\* started Stage 2 with: its task (the only one of that target) wrote none
\* of its source or test files.
C35_FailedTransformWroteNothing ==
    (pc = "stage2" /\ pool.state = "running") =>
       \A k \in 1..Len(pool.results) :
          LET c == pool.results[k].client
          IN (~pool.results[k].success /\ c \in _CLIENT_CONFIG /\ Count(pool.task, c) = 1)
                => disk[c] = Layout[c]

\* C36: in a run of run_pipeline no commit is pushed and no pull request
\* is opened for a target whose Stage 2 result has success = false.
FailedTransform(c) == \E i \in 1..Len(transform) : transform[i].client = c /\ ~transform[i].success

C36_NoPrAfterFailedTransform ==
    \A k \in 1..Len(pub.calls) :
       pub.calls[k].op \in {"push", "open"} => ~FailedTransform(pub.calls[k].client)

\* C36 (as amended): a commit is pushed and a pull request is opened only
\* for a target whose test record passed, in a run in which every test
\* record passed; the target's Stage 2 result plays no part.
C36_PrOnlyAfterPassedTests ==
    \A k \in 1..Len(pub.calls) :
       pub.calls[k].op \in {"push", "open"} =>
          /\ pub.calls[k].client \in DOMAIN tests
          /\ \A c \in DOMAIN tests : tests[c].passed

\* A pull request has been opened for a target whose transform failed.
C36_Witness ==
    /\ pc = "returned"
    /\ \E c \in DOMAIN prs :
          /\ FailedTransform(c)
          /\ tests[c].passed
          /\ prs[c].url = "url"
          /\ \E k \in 1..Len(pub.calls) : pub.calls[k] = Call(c, "push", TRUE)

\* C37: in the report run_pipeline returns, every target for which
\* _open_pr_with_gh returned a URL during Stage 4 has that URL in prs, also
\* when create_prs raised for a later target.
C37_OpenedPrsRecorded ==
    pc = "returned" =>
       \A k \in 1..Len(pub.calls) :
          pub.calls[k].op = "open" /\ pub.calls[k].ok =>
             /\ pub.calls[k].client \in DOMAIN prs
             /\ prs[pub.calls[k].client].url = "url"

\* C38: every file written for a target by Stage 2 or by a heal lies inside
\* the target's repository root, whatever relative path the response
\* declares (parent segments and absolute paths included).
InsideRoot(c, location) ==
    LET root == Resolve(<<>>, Cwd \o get_repo_root(c))
    IN Len(location) > Len(root) /\ SubSeq(location, 1, Len(root)) = root

C38_WritesInsideRoot ==
    (call.pc = "next" /\ call.written # <<>>) => InsideRoot(call.client, call.written)

\* C39: sanitizing a block that holds source lines only returns the block
\* with the empty lines at its two ends removed: no statement at its start
\* or at its end is dropped and every line in between survives.
C39_SourceSurvives ==
    call.pc = "sanitized" => call.cleaned = strip_lines(call.code)

\* C40: among the calls of _is_duplicate_event with one event id, whatever
\* their interleaving, no two calls whose times are within _EVENT_TTL
\* seconds of each other both return False, and a call returns True only if
\* a call of that id that returned False is at most _EVENT_TTL seconds older.
Accepted(r) == ~r.duplicate

C40_OncePerWindow ==
       \A i, j \in 1..Len(call.returned) :
          LET a == call.returned[i]
              b == call.returned[j]
          IN /\ (i # j /\ a.event_id = b.event_id /\ Accepted(a) /\ Accepted(b)
                    /\ a.now <= b.now) => b.now - a.now > _EVENT_TTL
             /\ (i = j /\ a.duplicate) =>
                   \E k \in 1..Len(call.returned) :
                      /\ Accepted(call.returned[k])
                      /\ call.returned[k].event_id = a.event_id
                      /\ a.now - call.returned[k].now <= _EVENT_TTL

====
